---- MODULE Spec2Model ----
(***************************************************************************)
(* Model of the metrics store of the Baseline Modernizer dashboard         *)
(* (src/src/metricsTracker.ts) and of the derivations the webview provider *)
(* computes from it (src/src/webviewProvider.ts).                          *)
(*                                                                         *)
(* The store is the object `this.metrics`: its number and Date fields are  *)
(* held by value, its featureUsage object and its two history arrays are   *)
(* held by reference.  The heap maps each reference to the object's        *)
(* content, so that a shallow copy of the record shares the three objects. *)
(***************************************************************************)
EXTENDS Integers, Sequences, FiniteSets, TLC

VARIABLES
    metrics,    \* this.metrics, the record of the store
    heap,       \* the content of the objects the record refers to
    now,        \* the clock, in milliseconds
    calls,      \* number of recording calls made in the session
    call,       \* the last call made on the store: its name and arguments
    ret,        \* what that call returned, as held by the caller
    panel,      \* this.panel of the webview provider
    panels,     \* the webview panels that exist in the editor
    prompts,    \* confirmation prompts of resetMetrics not yet answered
    posted,     \* the messages the last step posted to the panel
    runs        \* the analyzeProject loops in progress: each one's index i

vars == <<metrics, heap, now, calls, call, ret, panel, panels, prompts, posted, runs>>

\* the state of the webview provider and of the commands
ui == <<panel, panels, prompts, posted, runs>>

(***************************************************************************)
(* Bounds of the model.                                                    *)
(***************************************************************************)
MaxCalls == 3          \* recording calls per session
MaxIssues == 4         \* largest issuesCount passed to recordAnalysis
MaxTime == 1           \* last instant of the clock, in milliseconds
MaxTopFeatures == 11   \* most features in a featureUsage given to the sort
MaxLimit == 1          \* largest argument passed to getMostUsedFeatures
MaxDeriveFiles == 3    \* most files in a store given to the derivations
MaxDeriveFixes == 5    \* most fixes in a store given to the derivations
MaxPanels == 2         \* panels the editor has room for
MaxPrompts == 1        \* confirmation prompts open at a time
MaxRuns == 1           \* runs of analyzeProject in progress at a time

(***************************************************************************)
(* Program constants.                                                      *)
(***************************************************************************)
TopN == 10             \* .slice(0, 10) of getMostUsedFeatures
MsPerMinute == 60000   \* 1000 * 60 of getSessionStats

(***************************************************************************)
(* Inputs.  A path is the sequence of its characters; every other string   *)
(* is a TLA+ string.  An argument list is a sequence, so that a parameter  *)
(* with a default value can be left out.                                   *)
(***************************************************************************)
Paths == { <<"s", "/", "a">> }
Languages == { "css" }
IssueCounts == { 0, 1, MaxIssues }
NegIssueCounts == { -1 }
FeatureIds == { "var", "float" }
FixIds == { "let-const" }
UsageCounts == { 2, 3 }
Time == 0 .. MaxTime

Param(args, i, default) == IF Len(args) >= i THEN args[i] ELSE default

(***************************************************************************)
(* new Date(): a read of the clock.  Between two reads the clock stands    *)
(* still or advances by a millisecond.                                     *)
(***************************************************************************)
ClockRead(from) == { t \in Time : from <= t /\ t <= from + 1 }

(***************************************************************************)
(* String.prototype.split('/') applied to a path, then .pop() || path.     *)
(***************************************************************************)
RECURSIVE SplitSlash(_, _)
SplitSlash(path, cur) ==
    IF path = <<>> THEN <<cur>>
    ELSE IF Head(path) = "/" THEN <<cur>> \o SplitSlash(Tail(path), <<>>)
    ELSE SplitSlash(Tail(path), Append(cur, Head(path)))

Basename(path) ==
    LET parts == SplitSlash(path, <<>>)
        last == parts[Len(parts)]
    IN  IF last = <<>> THEN path ELSE last

(***************************************************************************)
(* Math.round(n / d) for integers n and d # 0: the nearest integer, a half *)
(* rounded towards plus infinity.                                          *)
(***************************************************************************)
Round(n, d) ==
    IF d > 0 THEN (2 * n + d) \div (2 * d)
    ELSE ((-2) * n - d) \div ((-2) * d)

Min(a, b) == IF a <= b THEN a ELSE b

(***************************************************************************)
(* A JavaScript object with string keys not shaped like array indices:     *)
(* the sequence of its [feature, count] properties in insertion order.     *)
(***************************************************************************)
HasKey(obj, k) == \E i \in 1 .. Len(obj) : obj[i].feature = k

KeyIndex(obj, k) == CHOOSE i \in 1 .. Len(obj) : obj[i].feature = k

\* obj[k], with 0 standing for the falsy `undefined` of an absent key
Lookup(obj, k) == IF HasKey(obj, k) THEN obj[KeyIndex(obj, k)].count ELSE 0

\* a variant that replaces the object by one holding the key alone
AssignFresh(obj, k, v) == << [feature |-> k, count |-> v] >>

\* obj[k] = v
Assign(obj, k, v) ==
    IF HasKey(obj, k)
    THEN [obj EXCEPT ![KeyIndex(obj, k)].count = v]
    ELSE Append(obj, [feature |-> k, count |-> v])

RECURSIVE SumCounts(_)
SumCounts(obj) ==
    IF obj = <<>> THEN 0 ELSE Head(obj).count + SumCounts(Tail(obj))

(***************************************************************************)
(* The heap: the three objects `this.metrics` refers to.  The objects of   *)
(* a replaced metrics record are unreachable once reset() has returned     *)
(* (the caller holds `undefined` then), so their references are reused.    *)
(***************************************************************************)
FeatureUsageRef == 1
AnalysisHistoryRef == 2
FixHistoryRef == 3
Refs == { FeatureUsageRef, AnalysisHistoryRef, FixHistoryRef }

EmptyHeap == [r \in Refs |-> <<>>]

Undefined == [kind |-> "undefined"]

FeatureUsage == heap[metrics.featureUsage]
AnalysisHistory == heap[metrics.analysisHistory]
FixHistory == heap[metrics.fixHistory]

(***************************************************************************)
(* constructor(): the literal assigned to this.metrics.  It reads the      *)
(* clock twice.                                                            *)
(***************************************************************************)
NewMetrics(t1, t2) ==
    [ filesAnalyzed |-> 0,
      issuesFound |-> 0,
      fixesApplied |-> 0,
      featureUsage |-> FeatureUsageRef,
      modernizationProgress |-> 0,
      lastAnalysis |-> t1,
      sessionStartTime |-> t2,
      analysisHistory |-> AnalysisHistoryRef,
      fixHistory |-> FixHistoryRef ]

\* `private panel: vscode.WebviewPanel | undefined`, before show() is called
NoPanel == 0

\* the provider after its constructor: no panel, nothing posted, no command
\* running
UiInit ==
    /\ panel = NoPanel
    /\ panels = {}
    /\ prompts = 0
    /\ posted = <<>>
    /\ runs = <<>>

Init ==
    /\ \E t1 \in ClockRead(0) : \E t2 \in ClockRead(t1) :
          /\ metrics = NewMetrics(t1, t2)
          /\ now = t2
    /\ heap = EmptyHeap
    /\ calls = 0
    /\ call = [op |-> "constructor", args |-> <<>>]
    /\ ret = Undefined
    /\ UiInit

(***************************************************************************)
(* updateModernizationProgress(), as a function of the record it updates.  *)
(***************************************************************************)
\* a variant without the cap at 100
ModernizationProgressUncapped(m) ==
    IF m.issuesFound = 0
    THEN (IF m.filesAnalyzed > 0 THEN 100 ELSE 0)
    ELSE Round(m.fixesApplied * 100, m.issuesFound)

ModernizationProgress(m) ==
    LET raw == IF m.issuesFound = 0
               THEN (IF m.filesAnalyzed > 0 THEN 100 ELSE 0)
               ELSE Round(m.fixesApplied * 100, m.issuesFound)
    IN  Min(raw, 100)

updateModernizationProgress(m) ==
    [m EXCEPT !.modernizationProgress = ModernizationProgress(m)]

(***************************************************************************)
(* recordAnalysis(filePath, issuesCount, language = 'unknown')             *)
(***************************************************************************)
\* a variant that takes a negative issuesCount for 0
recordAnalysisClamped(args) ==
    LET filePath == args[1]
        issuesCount == IF args[2] < 0 THEN 0 ELSE args[2]
        language == Param(args, 3, "unknown")
    IN  /\ calls < MaxCalls
        /\ calls' = calls + 1
        /\ \E t1 \in ClockRead(now) : \E t2 \in ClockRead(t1) :
              /\ metrics' = updateModernizationProgress(
                     [metrics EXCEPT !.filesAnalyzed = @ + 1,
                                     !.issuesFound = @ + issuesCount,
                                     !.lastAnalysis = t1])
              /\ heap' = [heap EXCEPT ![metrics.analysisHistory] =
                     Append(@, [ timestamp |-> t2,
                                 fileName |-> Basename(filePath),
                                 issuesCount |-> issuesCount,
                                 language |-> language ])]
              /\ now' = t2
        /\ call' = [op |-> "recordAnalysis", args |-> args]
        /\ UNCHANGED ui
        /\ ret' = Undefined

recordAnalysis(args) ==
    LET filePath == args[1]
        issuesCount == args[2]
        language == Param(args, 3, "unknown")
    IN  /\ calls < MaxCalls
        /\ calls' = calls + 1
        /\ \E t1 \in ClockRead(now) : \E t2 \in ClockRead(t1) :
              /\ metrics' = updateModernizationProgress(
                     [metrics EXCEPT !.filesAnalyzed = @ + 1,
                                     !.issuesFound = @ + issuesCount,
                                     !.lastAnalysis = t1])
              /\ heap' = [heap EXCEPT ![metrics.analysisHistory] =
                     Append(@, [ timestamp |-> t2,
                                 fileName |-> Basename(filePath),
                                 issuesCount |-> issuesCount,
                                 language |-> language ])]
              /\ now' = t2
        /\ call' = [op |-> "recordAnalysis", args |-> args]
        /\ UNCHANGED ui
        /\ ret' = Undefined

(***************************************************************************)
(* recordFix(featureId, fileName = '')                                     *)
(***************************************************************************)
\* a variant that leaves out the call of updateModernizationProgress
recordFixStale(args) ==
    LET featureId == args[1]
        fileName == Param(args, 2, <<>>)
    IN  /\ calls < MaxCalls
        /\ calls' = calls + 1
        /\ \E t \in ClockRead(now) :
              /\ heap' = [heap EXCEPT ![metrics.fixHistory] =
                     Append(@, [ timestamp |-> t,
                                 featureId |-> featureId,
                                 fileName |-> Basename(fileName) ])]
              /\ now' = t
        /\ metrics' = [metrics EXCEPT !.fixesApplied = @ + 1]
        /\ call' = [op |-> "recordFix", args |-> args]
        /\ UNCHANGED ui
        /\ ret' = Undefined

\* a variant that puts the entry at the front of the history
recordFixUnshift(args) ==
    LET featureId == args[1]
        fileName == Param(args, 2, <<>>)
    IN  /\ calls < MaxCalls
        /\ calls' = calls + 1
        /\ \E t \in ClockRead(now) :
              /\ heap' = [heap EXCEPT ![metrics.fixHistory] =
                     << [ timestamp |-> t,
                          featureId |-> featureId,
                          fileName |-> Basename(fileName) ] >> \o @]
              /\ now' = t
        /\ metrics' = updateModernizationProgress(
               [metrics EXCEPT !.fixesApplied = @ + 1])
        /\ call' = [op |-> "recordFix", args |-> args]
        /\ UNCHANGED ui
        /\ ret' = Undefined

recordFix(args) ==
    LET featureId == args[1]
        fileName == Param(args, 2, <<>>)
    IN  /\ calls < MaxCalls
        /\ calls' = calls + 1
        /\ \E t \in ClockRead(now) :
              /\ heap' = [heap EXCEPT ![metrics.fixHistory] =
                     Append(@, [ timestamp |-> t,
                                 featureId |-> featureId,
                                 fileName |-> Basename(fileName) ])]
              /\ now' = t
        /\ metrics' = updateModernizationProgress(
               [metrics EXCEPT !.fixesApplied = @ + 1])
        /\ call' = [op |-> "recordFix", args |-> args]
        /\ UNCHANGED ui
        /\ ret' = Undefined

(***************************************************************************)
(* recordFeatureUsage(featureId, count = 1)                                *)
(***************************************************************************)
\* a variant that assigns the count where the code adds it
recordFeatureUsageAssigning(args) ==
    LET featureId == args[1]
        count == Param(args, 2, 1)
    IN  /\ calls < MaxCalls
        /\ calls' = calls + 1
        /\ heap' = [heap EXCEPT ![metrics.featureUsage] =
               Assign(@, featureId, count)]
        /\ call' = [op |-> "recordFeatureUsage", args |-> args]
        /\ UNCHANGED ui
        /\ ret' = Undefined
        /\ UNCHANGED <<metrics, now>>

recordFeatureUsage(args) ==
    LET featureId == args[1]
        count == Param(args, 2, 1)
        usage == heap[metrics.featureUsage]
        zeroed == IF Lookup(usage, featureId) = 0
                  THEN Assign(usage, featureId, 0)
                  ELSE usage
    IN  /\ calls < MaxCalls
        /\ calls' = calls + 1
        /\ heap' = [heap EXCEPT ![metrics.featureUsage] =
               Assign(zeroed, featureId, Lookup(zeroed, featureId) + count)]
        /\ call' = [op |-> "recordFeatureUsage", args |-> args]
        /\ UNCHANGED ui
        /\ ret' = Undefined
        /\ UNCHANGED <<metrics, now>>

(***************************************************************************)
(* reset(): a new metrics record with new, empty objects.                  *)
(***************************************************************************)
\* a variant that zeroes the counters and keeps the objects of the record
resetCountersOnly ==
    /\ \E t1 \in ClockRead(now) : \E t2 \in ClockRead(t1) :
          /\ metrics' = NewMetrics(t1, t2)
          /\ now' = t2
    /\ heap' = heap
    /\ calls' = 0
    /\ call' = [op |-> "reset", args |-> <<>>]
    /\ UNCHANGED ui
    /\ ret' = Undefined

\* a variant that zeroes the record and keeps the fix history
resetKeepingFixes ==
    /\ \E t1 \in ClockRead(now) : \E t2 \in ClockRead(t1) :
          /\ metrics' = NewMetrics(t1, t2)
          /\ now' = t2
    /\ heap' = [EmptyHeap EXCEPT ![FixHistoryRef] = heap[metrics.fixHistory]]
    /\ calls' = 0
    /\ call' = [op |-> "reset", args |-> <<>>]
    /\ UNCHANGED ui
    /\ ret' = Undefined

reset ==
    /\ \E t1 \in ClockRead(now) : \E t2 \in ClockRead(t1) :
          /\ metrics' = NewMetrics(t1, t2)
          /\ now' = t2
    /\ heap' = EmptyHeap
    /\ calls' = 0
    /\ call' = [op |-> "reset", args |-> <<>>]
    /\ UNCHANGED ui
    /\ ret' = Undefined

(***************************************************************************)
(* Argument lists of the recording operations.                             *)
(***************************************************************************)
AnalysisArgs(counts) ==
    { <<p, n>> : p \in Paths, n \in counts }
        \cup { <<p, MaxIssues, l>> : p \in Paths, l \in Languages }

FixArgs ==
    { <<f>> : f \in FixIds } \cup { <<f, p>> : f \in FixIds, p \in Paths }

UsageArgs ==
    { <<f>> : f \in FeatureIds } \cup { <<"var", c>> : c \in UsageCounts }

Record ==
    \/ \E args \in AnalysisArgs(IssueCounts) : recordAnalysis(args)
    \/ \E args \in FixArgs : recordFix(args)
    \/ \E args \in UsageArgs : recordFeatureUsage(args)
    \/ reset

(***************************************************************************)
(* getMetrics(): { ...this.metrics }, a copy of the record one level deep. *)
(* The copy holds the numbers and dates by value and the same three        *)
(* references as the store.                                                *)
(***************************************************************************)
ShallowCopy(m) == m

getMetrics ==
    /\ call' = [op |-> "getMetrics", args |-> <<>>]
    /\ UNCHANGED ui
    /\ ret' = [kind |-> "metrics", value |-> ShallowCopy(metrics)]
    /\ UNCHANGED <<metrics, heap, now, calls>>

(***************************************************************************)
(* Array.prototype.sort((a, b) => b.count - a.count): a stable sort, an    *)
(* entry goes before the first entry of a smaller count.                   *)
(***************************************************************************)
\* a variant that puts an entry before the entries of its own count
InsertByCountBeforeEqual(sorted, e) ==
    LET notLarger == { i \in 1 .. Len(sorted) : sorted[i].count <= e.count }
        at == IF notLarger = {} THEN Len(sorted) + 1
              ELSE CHOOSE i \in notLarger : \A j \in notLarger : i <= j
    IN  SubSeq(sorted, 1, at - 1) \o <<e>> \o SubSeq(sorted, at, Len(sorted))

InsertByCount(sorted, e) ==
    LET smaller == { i \in 1 .. Len(sorted) : sorted[i].count < e.count }
        at == IF smaller = {} THEN Len(sorted) + 1
              ELSE CHOOSE i \in smaller : \A j \in smaller : i <= j
    IN  SubSeq(sorted, 1, at - 1) \o <<e>> \o SubSeq(sorted, at, Len(sorted))

RECURSIVE SortByCountInto(_, _)
SortByCountInto(sorted, rest) ==
    IF rest = <<>> THEN sorted
    ELSE SortByCountInto(InsertByCount(sorted, Head(rest)), Tail(rest))

\* a variant that sorts by ascending count
SortByCountAscending(entries) ==
    LET sorted == SortByCountInto(<<>>, entries)
    IN  [i \in 1 .. Len(sorted) |-> sorted[Len(sorted) + 1 - i]]

SortByCount(entries) == SortByCountInto(<<>>, entries)

\* Array.prototype.slice(0, n)
Slice(seq, n) == SubSeq(seq, 1, Min(n, Len(seq)))

(***************************************************************************)
(* getMostUsedFeatures(): it declares no parameter, so the arguments of a  *)
(* call are ignored.                                                       *)
(***************************************************************************)
MostUsedFeatures(usage) == Slice(SortByCount(usage), TopN)

getMostUsedFeatures(args) ==
    /\ call' = [op |-> "getMostUsedFeatures", args |-> args]
    /\ UNCHANGED ui
    /\ ret' = [kind |-> "features",
               value |-> MostUsedFeatures(heap[metrics.featureUsage])]
    /\ UNCHANGED <<metrics, heap, now, calls>>

(***************************************************************************)
(* Array.prototype.reverse(), which reverses the array it is called on,    *)
(* and [...array], the copy getAnalysisHistory and getFixHistory reverse.  *)
(***************************************************************************)
Reverse(seq) == [i \in 1 .. Len(seq) |-> seq[Len(seq) + 1 - i]]

\* a variant that reverses the stored array itself
ReversedInPlace(h, ref) ==
    [store |-> [h EXCEPT ![ref] = Reverse(@)], result |-> Reverse(h[ref])]

\* a variant that returns the copy as it is
CopiedNotReversed(h, ref) == [store |-> h, result |-> h[ref]]

\* the heap once the getter has run, and what the getter returns
ReversedCopy(h, ref) == [store |-> h, result |-> Reverse(h[ref])]

getAnalysisHistory ==
    LET r == ReversedCopy(heap, metrics.analysisHistory)
    IN  /\ heap' = r.store
        /\ call' = [op |-> "getAnalysisHistory", args |-> <<>>]
        /\ UNCHANGED ui
        /\ ret' = [kind |-> "history", value |-> r.result]
        /\ UNCHANGED <<metrics, now, calls>>

getFixHistory ==
    LET r == ReversedCopy(heap, metrics.fixHistory)
    IN  /\ heap' = r.store
        /\ call' = [op |-> "getFixHistory", args |-> <<>>]
        /\ UNCHANGED ui
        /\ ret' = [kind |-> "history", value |-> r.result]
        /\ UNCHANGED <<metrics, now, calls>>

(***************************************************************************)
(* JavaScript values as JSON.stringify sees them.                          *)
(***************************************************************************)
Num(n) == [t |-> "num", v |-> n]
Str(s) == [t |-> "str", v |-> s]
DateOf(ms) == [t |-> "date", v |-> ms]
Arr(elems) == [t |-> "arr", v |-> elems]
Obj(props) == [t |-> "obj", v |-> props]
Prop(k, v) == [k |-> k, v |-> v]

\* n / 10 as a number: an integer, or a number with one decimal
Tenths(n) == IF n % 10 = 0 THEN Num(n \div 10) ELSE [t |-> "num10", v |-> n]

(***************************************************************************)
(* getSessionStats()                                                       *)
(***************************************************************************)
SessionStats(m, t) ==
    [ duration |-> Round(t - m.sessionStartTime, MsPerMinute),
      filesAnalyzedThisSession |-> m.filesAnalyzed,
      issuesFoundThisSession |-> m.issuesFound,
      fixesAppliedThisSession |-> m.fixesApplied,
      averageIssuesPerFile |->
          IF m.filesAnalyzed > 0
          THEN Tenths(Round(m.issuesFound * 10, m.filesAnalyzed))
          ELSE Num(0) ]

getSessionStats ==
    /\ \E t \in ClockRead(now) :
          /\ ret' = [kind |-> "stats", value |-> SessionStats(metrics, t)]
          /\ now' = t
    /\ call' = [op |-> "getSessionStats", args |-> <<>>]
    /\ UNCHANGED ui
    /\ UNCHANGED <<metrics, heap, calls>>

(***************************************************************************)
(* JSON.stringify(value, null, 2): the text as its sequence of tokens      *)
(* (white space left out).  A Date is written by its toISOString().        *)
(***************************************************************************)
Punct(c) == [t |-> "punct", v |-> c]

\* Date.prototype.toISOString() of an instant of the first milliseconds
Iso(ms) == "1970-01-01T00:00:00.00" \o ToString(ms) \o "Z"

RECURSIVE Stringify(_), StringifyElems(_), StringifyProps(_)
Stringify(val) ==
    IF val.t = "date" THEN <<Str(Iso(val.v))>>
    ELSE IF val.t = "arr"
    THEN <<Punct("[")>> \o StringifyElems(val.v) \o <<Punct("]")>>
    ELSE IF val.t = "obj"
    THEN <<Punct("{")>> \o StringifyProps(val.v) \o <<Punct("}")>>
    ELSE <<val>>

StringifyElems(elems) ==
    IF elems = <<>> THEN <<>>
    ELSE Stringify(Head(elems))
         \o (IF Len(elems) > 1 THEN <<Punct(",")>> ELSE <<>>)
         \o StringifyElems(Tail(elems))

StringifyProps(props) ==
    IF props = <<>> THEN <<>>
    ELSE <<Str(Head(props).k), Punct(":")>> \o Stringify(Head(props).v)
         \o (IF Len(props) > 1 THEN <<Punct(",")>> ELSE <<>>)
         \o StringifyProps(Tail(props))

(***************************************************************************)
(* JSON.parse(text): each step returns the value read and the tokens left. *)
(***************************************************************************)
IsPunct(tok, c) == tok.t = "punct" /\ tok.v = c

RECURSIVE ParseValue(_), ParseElems(_, _), ParseProps(_, _)
ParseValue(toks) ==
    IF IsPunct(Head(toks), "[") THEN ParseElems(Tail(toks), <<>>)
    ELSE IF IsPunct(Head(toks), "{") THEN ParseProps(Tail(toks), <<>>)
    ELSE [v |-> Head(toks), rest |-> Tail(toks)]

ParseElems(toks, acc) ==
    IF IsPunct(Head(toks), "]") THEN [v |-> Arr(acc), rest |-> Tail(toks)]
    ELSE IF IsPunct(Head(toks), ",") THEN ParseElems(Tail(toks), acc)
    ELSE LET elem == ParseValue(toks)
         IN  ParseElems(elem.rest, Append(acc, elem.v))

ParseProps(toks, acc) ==
    IF IsPunct(Head(toks), "}") THEN [v |-> Obj(acc), rest |-> Tail(toks)]
    ELSE IF IsPunct(Head(toks), ",") THEN ParseProps(Tail(toks), acc)
    ELSE LET val == ParseValue(Tail(Tail(toks)))
         IN  ParseProps(val.rest, Append(acc, Prop(Head(toks).v, val.v)))

JsonParse(text) == ParseValue(text).v

\* object[key] of a parsed object
HasProp(obj, key) == \E i \in 1 .. Len(obj.v) : obj.v[i].k = key

GetProp(obj, key) ==
    obj.v[CHOOSE i \in 1 .. Len(obj.v) : obj.v[i].k = key].v

(***************************************************************************)
(* The metrics record and the objects it refers to, as a value.            *)
(***************************************************************************)
UsageValue(usage) ==
    Obj([i \in 1 .. Len(usage) |->
            Prop(usage[i].feature, Num(usage[i].count))])

AnalysisValue(history) ==
    Arr([i \in 1 .. Len(history) |->
            Obj(<< Prop("timestamp", DateOf(history[i].timestamp)),
                   Prop("fileName", Str(history[i].fileName)),
                   Prop("issuesCount", Num(history[i].issuesCount)),
                   Prop("language", Str(history[i].language)) >>)])

FixValue(history) ==
    Arr([i \in 1 .. Len(history) |->
            Obj(<< Prop("timestamp", DateOf(history[i].timestamp)),
                   Prop("featureId", Str(history[i].featureId)),
                   Prop("fileName", Str(history[i].fileName)) >>)])

MetricsProps(m, h) ==
    << Prop("filesAnalyzed", Num(m.filesAnalyzed)),
       Prop("issuesFound", Num(m.issuesFound)),
       Prop("fixesApplied", Num(m.fixesApplied)),
       Prop("featureUsage", UsageValue(h[m.featureUsage])),
       Prop("modernizationProgress", Num(m.modernizationProgress)),
       Prop("lastAnalysis", DateOf(m.lastAnalysis)),
       Prop("sessionStartTime", DateOf(m.sessionStartTime)),
       Prop("analysisHistory", AnalysisValue(h[m.analysisHistory])),
       Prop("fixHistory", FixValue(h[m.fixHistory])) >>

StatsValue(stats) ==
    Obj(<< Prop("duration", Num(stats.duration)),
           Prop("filesAnalyzedThisSession", Num(stats.filesAnalyzedThisSession)),
           Prop("issuesFoundThisSession", Num(stats.issuesFoundThisSession)),
           Prop("fixesAppliedThisSession", Num(stats.fixesAppliedThisSession)),
           Prop("averageIssuesPerFile", stats.averageIssuesPerFile) >>)

(***************************************************************************)
(* exportMetrics()                                                         *)
(***************************************************************************)
\* a variant that exports the session statistics in place of the record
ExportDataFromStats(m, h, t1, t2) ==
    Obj(StatsValue(SessionStats(m, t1)).v
        \o << Prop("exportTimestamp", Str(Iso(t2))),
              Prop("version", Str("1.0.0")) >>)

ExportData(m, h, t1, t2) ==
    Obj(MetricsProps(m, h)
        \o << Prop("sessionStats", StatsValue(SessionStats(m, t1))),
              Prop("exportTimestamp", Str(Iso(t2))),
              Prop("version", Str("1.0.0")) >>)

exportMetrics ==
    /\ \E t1 \in ClockRead(now) : \E t2 \in ClockRead(t1) :
          /\ ret' = [kind |-> "text",
                     value |-> Stringify(ExportData(metrics, heap, t1, t2))]
          /\ now' = t2
    /\ call' = [op |-> "exportMetrics", args |-> <<>>]
    /\ UNCHANGED ui
    /\ UNCHANGED <<metrics, heap, calls>>

(***************************************************************************)
(* generateRecommendations() of the webview provider: a function of the    *)
(* snapshot getMetrics() returns and of getMostUsedFeatures().             *)
(***************************************************************************)
\* a variant that also fires at a fix rate of exactly 50
LowFixRateInclusive(m) ==
    LET fixRate == Round(m.fixesApplied * 100, m.issuesFound)
    IN  IF fixRate <= 50
        THEN << [ id |-> "low_fix_rate",
                  type |-> "priority",
                  title |-> "Apply Available Quick Fixes",
                  description |->
                      "You have " \o ToString(m.issuesFound)
                      \o " issues but only " \o ToString(fixRate)
                      \o "% fixed. Use VS Code's quick fix actions (Ctrl+.) to modernize your code faster.",
                  action |-> "Apply Quick Fixes",
                  actionable |-> TRUE,
                  impact |-> "High" ] >>
        ELSE <<>>

LowFixRate(m) ==
    LET fixRate == Round(m.fixesApplied * 100, m.issuesFound)
    IN  IF fixRate < 50
        THEN << [ id |-> "low_fix_rate",
                  type |-> "priority",
                  title |-> "Apply Available Quick Fixes",
                  description |->
                      "You have " \o ToString(m.issuesFound)
                      \o " issues but only " \o ToString(fixRate)
                      \o "% fixed. Use VS Code's quick fix actions (Ctrl+.) to modernize your code faster.",
                  action |-> "Apply Quick Fixes",
                  actionable |-> TRUE,
                  impact |-> "High" ] >>
        ELSE <<>>

\* a variant that truncates the average
HighDensityTruncating(m) ==
    LET avgIssuesPerFile == m.issuesFound \div m.filesAnalyzed
    IN  IF avgIssuesPerFile > 2
        THEN << [ id |-> "high_density",
                  type |-> "warning",
                  title |-> "Focus on High-Impact Files",
                  description |->
                      "Average " \o ToString(avgIssuesPerFile)
                      \o " legacy patterns per file. Prioritize files with the most issues for maximum impact.",
                  action |-> "View File Analysis",
                  actionable |-> TRUE,
                  impact |-> "Medium" ] >>
        ELSE <<>>

HighDensity(m) ==
    LET avgIssuesPerFile == Round(m.issuesFound, m.filesAnalyzed)
    IN  IF avgIssuesPerFile > 2
        THEN << [ id |-> "high_density",
                  type |-> "warning",
                  title |-> "Focus on High-Impact Files",
                  description |->
                      "Average " \o ToString(avgIssuesPerFile)
                      \o " legacy patterns per file. Prioritize files with the most issues for maximum impact.",
                  action |-> "View File Analysis",
                  actionable |-> TRUE,
                  impact |-> "Medium" ] >>
        ELSE <<>>

CommonPattern(topFeature) ==
    [ id |-> "common_pattern",
      type |-> "info",
      title |-> "Modernize \"" \o topFeature.feature \o "\" Usage",
      description |->
          "\"" \o topFeature.feature \o "\" appears "
          \o ToString(topFeature.count)
          \o " times. This is your biggest modernization opportunity.",
      action |-> "View Alternatives",
      actionable |-> TRUE,
      impact |-> "High" ]

BaselineAdoption ==
    [ id |-> "baseline_adoption",
      type |-> "suggestion",
      title |-> "Adopt More Baseline Features",
      description |->
          "850+ web features are widely available (Baseline High). Consider using modern APIs and CSS properties that are safe across all browsers.",
      action |-> "Explore Baseline Features",
      actionable |-> TRUE,
      impact |-> "Medium" ]

BrowserCompatibility ==
    [ id |-> "browser_compatibility",
      type |-> "info",
      title |-> "Excellent Browser Support Available",
      description |->
          "Chrome (82%), Firefox (77%), Safari (71%), Edge (78%) - Most modern features have strong cross-browser support.",
      action |-> "View Browser Matrix",
      actionable |-> FALSE,
      impact |-> "Low" ]

\* a variant that emits the two static recommendations first
RecommendationsStaticFirst(m, mostUsedFeatures) ==
    <<BaselineAdoption, BrowserCompatibility>>
    \o (IF m.issuesFound > 0 THEN LowFixRate(m) ELSE <<>>)
    \o (IF m.filesAnalyzed > 0 THEN HighDensity(m) ELSE <<>>)
    \o (IF Len(mostUsedFeatures) > 0
        THEN <<CommonPattern(mostUsedFeatures[1])>> ELSE <<>>)

Recommendations(m, mostUsedFeatures) ==
    (IF m.issuesFound > 0 THEN LowFixRate(m) ELSE <<>>)
    \o (IF m.filesAnalyzed > 0 THEN HighDensity(m) ELSE <<>>)
    \o (IF Len(mostUsedFeatures) > 0
        THEN <<CommonPattern(mostUsedFeatures[1])>> ELSE <<>>)
    \o <<BaselineAdoption, BrowserCompatibility>>

generateRecommendations ==
    /\ call' = [op |-> "generateRecommendations", args |-> <<>>]
    /\ UNCHANGED ui
    /\ ret' = [kind |-> "recommendations",
               value |-> Recommendations(ShallowCopy(metrics),
                             MostUsedFeatures(heap[metrics.featureUsage]))]
    /\ UNCHANGED <<metrics, heap, now, calls>>

(***************************************************************************)
(* generateTimelineData() of the webview provider.                         *)
(***************************************************************************)
\* a variant that takes a project without issues for a finished one
CompletionRateDoneWhenNoIssues(m) ==
    IF m.issuesFound > 0 THEN Round(m.fixesApplied * 100, m.issuesFound)
    ELSE IF m.filesAnalyzed > 0 THEN 100 ELSE 0

CompletionRate(m) ==
    IF m.issuesFound > 0 THEN Round(m.fixesApplied * 100, m.issuesFound) ELSE 0

AssessmentPhase(m) ==
    [ phase |-> "Assessment",
      status |-> IF m.filesAnalyzed > 0 THEN "completed" ELSE "pending",
      progress |-> IF m.filesAnalyzed > 0 THEN 100 ELSE 0,
      description |->
          "Analyzed " \o ToString(m.filesAnalyzed)
          \o " files and identified " \o ToString(m.issuesFound)
          \o " modernization opportunities",
      duration |-> "1-2 days",
      priority |-> "high",
      tasks |-> << "Scan codebase for legacy patterns",
                   "Identify browser compatibility gaps",
                   "Catalog modernization opportunities",
                   "Generate baseline compatibility report" >> ]

\* a variant that takes the analysed files for the issues
PlanningPhaseByFiles(m) ==
    [ phase |-> "Planning",
      status |-> IF m.filesAnalyzed > 0 THEN "completed" ELSE "pending",
      progress |-> IF m.filesAnalyzed > 0 THEN 100 ELSE 0,
      description |->
          "Prioritized " \o ToString(m.issuesFound)
          \o " issues by impact and Baseline availability",
      duration |-> "2-3 days",
      priority |-> "high",
      tasks |-> << "Prioritize issues by impact",
                   "Research modern alternatives",
                   "Plan migration strategy",
                   "Set up testing framework" >> ]

PlanningPhase(m) ==
    [ phase |-> "Planning",
      status |-> IF m.issuesFound > 0 THEN "completed" ELSE "pending",
      progress |-> IF m.issuesFound > 0 THEN 100 ELSE 0,
      description |->
          "Prioritized " \o ToString(m.issuesFound)
          \o " issues by impact and Baseline availability",
      duration |-> "2-3 days",
      priority |-> "high",
      tasks |-> << "Prioritize issues by impact",
                   "Research modern alternatives",
                   "Plan migration strategy",
                   "Set up testing framework" >> ]

\* a variant that is completed at a rate of exactly 100 only
ImplementationPhaseExact(m, completionRate) ==
    [ phase |-> "Implementation",
      status |-> IF completionRate > 0
                 THEN (IF completionRate = 100
                       THEN "completed" ELSE "in-progress")
                 ELSE "pending",
      progress |-> completionRate,
      description |->
          "Applied " \o ToString(m.fixesApplied) \o " of "
          \o ToString(m.issuesFound) \o " modernizations ("
          \o ToString(completionRate) \o "% complete)",
      duration |-> "1-2 weeks",
      priority |-> "medium",
      tasks |-> << "Replace var with let/const",
                   "Migrate XMLHttpRequest to Fetch",
                   "Convert float layouts to Flexbox",
                   "Update semantic HTML structure" >> ]

ImplementationPhase(m, completionRate) ==
    [ phase |-> "Implementation",
      status |-> IF completionRate > 0
                 THEN (IF completionRate >= 100
                       THEN "completed" ELSE "in-progress")
                 ELSE "pending",
      progress |-> completionRate,
      description |->
          "Applied " \o ToString(m.fixesApplied) \o " of "
          \o ToString(m.issuesFound) \o " modernizations ("
          \o ToString(completionRate) \o "% complete)",
      duration |-> "1-2 weeks",
      priority |-> "medium",
      tasks |-> << "Replace var with let/const",
                   "Migrate XMLHttpRequest to Fetch",
                   "Convert float layouts to Flexbox",
                   "Update semantic HTML structure" >> ]

\* a variant that starts testing above a rate of 80
TestingPhaseAbove(completionRate) ==
    [ phase |-> "Testing",
      status |-> IF completionRate > 80 THEN "in-progress" ELSE "pending",
      progress |-> IF completionRate > 80 THEN 60 ELSE 0,
      description |-> "Cross-browser testing and performance validation",
      duration |-> "3-5 days",
      priority |-> "high",
      tasks |-> << "Test across target browsers",
                   "Validate performance improvements",
                   "Check accessibility compliance",
                   "Verify responsive behavior" >> ]

TestingPhase(completionRate) ==
    [ phase |-> "Testing",
      status |-> IF completionRate >= 80 THEN "in-progress" ELSE "pending",
      progress |-> IF completionRate >= 80 THEN 60 ELSE 0,
      description |-> "Cross-browser testing and performance validation",
      duration |-> "3-5 days",
      priority |-> "high",
      tasks |-> << "Test across target browsers",
                   "Validate performance improvements",
                   "Check accessibility compliance",
                   "Verify responsive behavior" >> ]

\* a variant that is ready as soon as testing starts
DeploymentPhaseEarly(completionRate) ==
    [ phase |-> "Deployment",
      status |-> IF completionRate >= 80 THEN "ready" ELSE "pending",
      progress |-> IF completionRate >= 80 THEN 100 ELSE 0,
      description |-> "Production deployment and monitoring",
      duration |-> "1-2 days",
      priority |-> "low",
      tasks |-> << "Deploy to staging environment",
                   "Run automated tests",
                   "Monitor performance metrics",
                   "Deploy to production" >> ]

DeploymentPhase(completionRate) ==
    [ phase |-> "Deployment",
      status |-> IF completionRate >= 100 THEN "ready" ELSE "pending",
      progress |-> IF completionRate >= 100 THEN 100 ELSE 0,
      description |-> "Production deployment and monitoring",
      duration |-> "1-2 days",
      priority |-> "low",
      tasks |-> << "Deploy to staging environment",
                   "Run automated tests",
                   "Monitor performance metrics",
                   "Deploy to production" >> ]

\* a variant that lists Testing before Implementation
TimelineTestingFirst(m) ==
    LET completionRate == CompletionRate(m)
    IN  << AssessmentPhase(m),
           PlanningPhase(m),
           TestingPhase(completionRate),
           ImplementationPhase(m, completionRate),
           DeploymentPhase(completionRate) >>

Timeline(m) ==
    LET completionRate == CompletionRate(m)
    IN  << AssessmentPhase(m),
           PlanningPhase(m),
           ImplementationPhase(m, completionRate),
           TestingPhase(completionRate),
           DeploymentPhase(completionRate) >>

generateTimelineData ==
    /\ call' = [op |-> "generateTimelineData", args |-> <<>>]
    /\ UNCHANGED ui
    /\ ret' = [kind |-> "timeline", value |-> Timeline(ShallowCopy(metrics))]
    /\ UNCHANGED <<metrics, heap, now, calls>>

(***************************************************************************)
(* exportMetrics() of the webview provider: the object it writes to the    *)
(* exported document.  Its baselineStatistics, browserCompatibility and    *)
(* supportedWebFeatures are constants of the feature catalog and are left  *)
(* out.                                                                    *)
(***************************************************************************)
TopRecommendation(recommendations) ==
    IF Len(recommendations) > 0 THEN recommendations[1].title ELSE "None"

WebviewExportData(m, h, t1, t2, t3) ==
    LET parsed == JsonParse(Stringify(ExportData(m, h, t1, t2)))
        recommendations ==
            Recommendations(ShallowCopy(m), MostUsedFeatures(h[m.featureUsage]))
    IN  [ timestamp |-> Iso(t3),
          metrics |-> parsed,
          recommendations |-> recommendations,
          summary |->
              [ totalAnalyzed |-> GetProp(parsed, "filesAnalyzed").v,
                issuesFound |-> GetProp(parsed, "issuesFound").v,
                modernizationProgress |->
                    ToString(GetProp(parsed, "modernizationProgress").v) \o "%",
                topRecommendation |-> TopRecommendation(recommendations) ] ]

webviewExportMetrics ==
    /\ \E t1 \in ClockRead(now) : \E t2 \in ClockRead(t1) :
       \E t3 \in ClockRead(t2) :
          /\ ret' = [kind |-> "document",
                     value |-> WebviewExportData(metrics, heap, t1, t2, t3)]
          /\ now' = t3
    /\ call' = [op |-> "webview.exportMetrics", args |-> <<>>]
    /\ UNCHANGED ui
    /\ UNCHANGED <<metrics, heap, calls>>

(***************************************************************************)
(* A caller writing to the snapshot getMetrics() returned to it.  A write  *)
(* to a number field changes the caller's copy; a write to the featureUsage*)
(* object or to a history array goes through the reference the copy holds. *)
(***************************************************************************)
SnapshotCounters ==
    { "filesAnalyzed", "issuesFound", "fixesApplied", "modernizationProgress" }

\* snapshot.<counter> = 0
WriteSnapshotCounter(field) ==
    /\ ret.kind = "metrics"
    /\ ret.value[field] # 0
    /\ ret' = [ret EXCEPT !.value[field] = 0]
    /\ call' = [op |-> "snapshot.counter = 0", args |-> <<field>>]
    /\ UNCHANGED ui
    /\ UNCHANGED <<metrics, heap, now, calls>>

\* snapshot.featureUsage[featureId] = 0
WriteSnapshotUsage(featureId) ==
    /\ ret.kind = "metrics"
    /\ Lookup(heap[ret.value.featureUsage], featureId) # 0
    /\ heap' = [heap EXCEPT ![ret.value.featureUsage] = Assign(@, featureId, 0)]
    /\ call' = [op |-> "snapshot.featureUsage[id] = 0", args |-> <<featureId>>]
    /\ UNCHANGED ui
    /\ UNCHANGED <<metrics, now, calls, ret>>

\* snapshot.analysisHistory.pop() or snapshot.fixHistory.pop()
PopSnapshotHistory(field) ==
    /\ ret.kind = "metrics"
    /\ heap[ret.value[field]] # <<>>
    /\ heap' = [heap EXCEPT ![ret.value[field]] = SubSeq(@, 1, Len(@) - 1)]
    /\ call' = [op |-> "snapshot.history.pop()", args |-> <<field>>]
    /\ UNCHANGED ui
    /\ UNCHANGED <<metrics, now, calls, ret>>

Caller ==
    \/ \E field \in SnapshotCounters : WriteSnapshotCounter(field)
    \/ \E f \in FeatureIds : WriteSnapshotUsage(f)
    \/ \E field \in { "analysisHistory", "fixHistory" } : PopSnapshotHistory(field)

Read ==
    \/ getMetrics
    \/ \E args \in { <<>> } : getMostUsedFeatures(args)
    \/ getAnalysisHistory
    \/ getFixHistory
    \/ getSessionStats
    \/ exportMetrics
    \/ generateRecommendations
    \/ generateTimelineData

(***************************************************************************)
(* Spec: the operations of the store and the two derivations.              *)
(* SpecCaller: the same, with a caller that writes to the snapshots.       *)
(* SpecAnyCount: the same as Spec, with negative issue counts too.         *)
(***************************************************************************)
Next == Record \/ Read

Spec == Init /\ [][Next]_vars

SpecStore == Init /\ [][Record]_vars

NextCaller == Record \/ Read \/ Caller

SpecCaller == Init /\ [][NextCaller]_vars

(***************************************************************************)
(* SpecTop: getMostUsedFeatures as a function of featureUsage.  The store  *)
(* starts with the counts of up to MaxTopFeatures features, as a sequence  *)
(* of recordFeatureUsage calls leaves them.                                *)
(***************************************************************************)
FeatureNames ==
    << "var", "XMLHttpRequest", "float", "function", "<div>", "<b><i><u>",
       "for-in", "flexbox", "fetch", "let-const", "grid", "arrow-functions",
       "semantic-elements", "custom-properties", "template-literals" >>

TopCounts == { 1, 2 }

LimitArgs == { <<>> } \cup { <<n>> : n \in 1 .. MaxLimit }

InitTop ==
    /\ \E n \in 0 .. MaxTopFeatures : \E counts \in [1 .. n -> TopCounts] :
          /\ heap = [EmptyHeap EXCEPT ![FeatureUsageRef] =
                 [i \in 1 .. n |->
                     [feature |-> FeatureNames[i], count |-> counts[i]]]]
          /\ calls = n
    /\ metrics = NewMetrics(0, 0)
    /\ now = 0
    /\ call = [op |-> "recordFeatureUsage", args |-> <<>>]
    /\ ret = Undefined
    /\ UiInit

NextTop == \E args \in LimitArgs : getMostUsedFeatures(args)

SpecTop == InitTop /\ [][NextTop]_vars

NextAnyCount ==
    \/ Record
    \/ \E args \in AnalysisArgs(NegIssueCounts) : recordAnalysis(args)

SpecAnyCount == Init /\ [][NextAnyCount]_vars

(***************************************************************************)
(* SpecDerive: getSessionStats, generateRecommendations and                *)
(* generateTimelineData as functions of the store.  The store starts as    *)
(* recordAnalysis calls (one per file, with the issue counts drawn), then  *)
(* recordFix calls, then recordFeatureUsage calls leave it when the clock  *)
(* stands still.                                                           *)
(***************************************************************************)
DeriveCounts == { -1, 0, 1, 5 }

DeriveUsages ==
    { <<>> }
        \cup { Assign(<<>>, f, c) : f \in FeatureIds, c \in TopCounts }
        \cup { Assign(Assign(<<>>, p[1], c), p[2], d) :
                   p \in { q \in FeatureIds \X FeatureIds : q[1] # q[2] },
                   c \in TopCounts, d \in TopCounts }

RECURSIVE SumIssues(_)
SumIssues(history) ==
    IF history = <<>> THEN 0
    ELSE Head(history).issuesCount + SumIssues(Tail(history))

InitDerive ==
    /\ \E files \in 0 .. MaxDeriveFiles :
       \E counts \in [1 .. files -> DeriveCounts] :
       \E fixes \in 0 .. MaxDeriveFixes :
       \E usage \in DeriveUsages :
          LET analyses == [i \in 1 .. files |->
                              [ timestamp |-> 0,
                                fileName |-> Basename(<<"s", "/", "a">>),
                                issuesCount |-> counts[i],
                                language |-> "unknown" ]]
              applied == [i \in 1 .. fixes |->
                              [ timestamp |-> 0,
                                featureId |-> "let-const",
                                fileName |-> Basename(<<>>) ]]
          IN  /\ metrics = updateModernizationProgress(
                     [NewMetrics(0, 0) EXCEPT
                          !.filesAnalyzed = files,
                          !.issuesFound = SumIssues(analyses),
                          !.fixesApplied = fixes])
              /\ heap = [r \in Refs |->
                     IF r = FeatureUsageRef THEN usage
                     ELSE IF r = AnalysisHistoryRef THEN analyses
                     ELSE applied]
              /\ calls = files + fixes + SumCounts(usage)
    /\ now = 0
    /\ call = [op |-> "recordFeatureUsage", args |-> <<>>]
    /\ ret = Undefined
    /\ UiInit

NextDerive ==
    \/ getSessionStats
    \/ generateRecommendations
    \/ generateTimelineData

SpecDerive == InitDerive /\ [][NextDerive]_vars

(***************************************************************************)
(* SpecDocument: the recording operations and the export of the webview    *)
(* provider.                                                               *)
(***************************************************************************)
NextDocument == Record \/ generateRecommendations \/ webviewExportMetrics

SpecDocument == Init /\ [][NextDocument]_vars

(***************************************************************************)
(* The webview provider (src/src/webviewProvider.ts) and the commands of   *)
(* the extension call the store from handlers that run to completion.  A   *)
(* handler that makes several calls works on the store as one value.       *)
(***************************************************************************)
Store == [metrics |-> metrics, heap |-> heap, now |-> now]

\* new Date() read n times in a row
RECURSIVE ClockReads(_, _)
ClockReads(from, n) ==
    IF n = 0 THEN { <<>> }
    ELSE UNION { { <<t>> \o ts : ts \in ClockReads(t, n - 1) } :
                 t \in ClockRead(from) }

\* recordAnalysis(filePath, issuesCount, language = 'unknown') with the
\* clock read as t1, then as t2
RecordedAnalysis(st, args, t1, t2) ==
    LET filePath == args[1]
        issuesCount == args[2]
        language == Param(args, 3, "unknown")
    IN  [ metrics |-> updateModernizationProgress(
              [st.metrics EXCEPT !.filesAnalyzed = @ + 1,
                                 !.issuesFound = @ + issuesCount,
                                 !.lastAnalysis = t1]),
          heap |-> [st.heap EXCEPT ![st.metrics.analysisHistory] =
              Append(@, [ timestamp |-> t2,
                          fileName |-> Basename(filePath),
                          issuesCount |-> issuesCount,
                          language |-> language ])],
          now |-> t2 ]

\* recordFix(featureId, fileName = '') with the clock read as t
RecordedFix(st, args, t) ==
    LET featureId == args[1]
        fileName == Param(args, 2, <<>>)
    IN  [ metrics |-> updateModernizationProgress(
              [st.metrics EXCEPT !.fixesApplied = @ + 1]),
          heap |-> [st.heap EXCEPT ![st.metrics.fixHistory] =
              Append(@, [ timestamp |-> t,
                          featureId |-> featureId,
                          fileName |-> Basename(fileName) ])],
          now |-> t ]

\* recordFeatureUsage(featureId, count = 1)
RecordedFeatureUsage(st, args) ==
    LET featureId == args[1]
        count == Param(args, 2, 1)
        usage == st.heap[st.metrics.featureUsage]
        zeroed == IF Lookup(usage, featureId) = 0
                  THEN Assign(usage, featureId, 0)
                  ELSE usage
    IN  [st EXCEPT !.heap[st.metrics.featureUsage] =
             Assign(zeroed, featureId, Lookup(zeroed, featureId) + count)]

\* recordFeatureUsage(f) for each f of a list, in its order
RECURSIVE RecordedFeatureUsages(_, _)
RecordedFeatureUsages(st, featureIds) ==
    IF featureIds = <<>> THEN st
    ELSE RecordedFeatureUsages(RecordedFeatureUsage(st, <<Head(featureIds)>>),
                               Tail(featureIds))

\* reset() with the clock read as t1, then as t2
ResetStore(t1, t2) ==
    [metrics |-> NewMetrics(t1, t2), heap |-> EmptyHeap, now |-> t2]

(***************************************************************************)
(* loadSampleData() of the provider, up to its call of updateDashboard:    *)
(* two analyses, eight feature usages and two fixes.  ts are its six reads *)
(* of the clock.                                                           *)
(***************************************************************************)
SampleData(st, ts) ==
    LET s1 == RecordedAnalysis(st, << <<"src", "/", "app.js">>, 3 >>,
                               ts[1], ts[2])
        s2 == RecordedFeatureUsages(s1,
                  <<"var", "XMLHttpRequest", "float", "var", "function",
                    "float">>)
        s3 == RecordedAnalysis(s2, << <<"src", "/", "styles.css">>, 2 >>,
                               ts[3], ts[4])
        s4 == RecordedFeatureUsages(s3, <<"<div>", "<b><i><u>">>)
        s5 == RecordedFix(s4, <<"let-const">>, ts[5])
    IN  RecordedFix(s5, <<"fetch">>, ts[6])

(***************************************************************************)
(* updateDashboard(): the data of the 'updateData' message, all of it      *)
(* derived in one run of the handler.  The message is a copy by value of   *)
(* what it is given.  baselineFeatures, browserSupport and                 *)
(* supportedFeatures do not depend on the store and are left out.          *)
(***************************************************************************)
MetricsSnapshot(st) ==
    [ filesAnalyzed |-> st.metrics.filesAnalyzed,
      issuesFound |-> st.metrics.issuesFound,
      fixesApplied |-> st.metrics.fixesApplied,
      featureUsage |-> st.heap[st.metrics.featureUsage],
      modernizationProgress |-> st.metrics.modernizationProgress,
      lastAnalysis |-> st.metrics.lastAnalysis,
      sessionStartTime |-> st.metrics.sessionStartTime,
      analysisHistory |-> st.heap[st.metrics.analysisHistory],
      fixHistory |-> st.heap[st.metrics.fixHistory] ]

\* a variant that takes the timeline from the store as it was constructed
DashboardDataStaleTimeline(st) ==
    LET mostUsedFeatures == MostUsedFeatures(st.heap[st.metrics.featureUsage])
    IN  [ metrics |-> MetricsSnapshot(st),
          mostUsedFeatures |-> mostUsedFeatures,
          recommendations |-> Recommendations(st.metrics, mostUsedFeatures),
          timeline |-> Timeline(NewMetrics(0, 0)) ]

DashboardData(st) ==
    LET mostUsedFeatures == MostUsedFeatures(st.heap[st.metrics.featureUsage])
    IN  [ metrics |-> MetricsSnapshot(st),
          mostUsedFeatures |-> mostUsedFeatures,
          recommendations |-> Recommendations(st.metrics, mostUsedFeatures),
          timeline |-> Timeline(st.metrics) ]

\* a variant that posts nothing
updateDashboardSilent(p, st) == <<>>

\* the messages updateDashboard() posts when this.panel is p
updateDashboard(p, st) ==
    IF p = NoPanel THEN <<>>
    ELSE << [command |-> "updateData", data |-> DashboardData(st)] >>

(***************************************************************************)
(* BaselineService: the feature catalog and the lookup of a feature.  A    *)
(* string is the sequence of its characters.  Of each feature the id and   *)
(* the name are kept, the fields the lookup reads.                         *)
(***************************************************************************)
sampleFeatures ==
    <<
       [ id |->
            <<"f", "l", "e", "x", "b", "o", "x">>,
         name |->
            <<"C", "S", "S", " ", "F", "l", "e", "x", "b", "o", "x">> ],
       [ id |->
            <<"f", "e", "t", "c", "h">>,
         name |->
            <<"F", "e", "t", "c", "h", " ", "A", "P", "I">> ],
       [ id |->
            <<"l", "e", "t", "-", "c", "o", "n", "s", "t">>,
         name |->
            <<"l", "e", "t", " ", "a", "n", "d", " ", "c", "o", "n", "s",
              "t", " ", "d", "e", "c", "l", "a", "r", "a", "t", "i", "o",
              "n", "s">> ],
       [ id |->
            <<"g", "r", "i", "d">>,
         name |->
            <<"C", "S", "S", " ", "G", "r", "i", "d", " ", "L", "a", "y",
              "o", "u", "t">> ],
       [ id |->
            <<"a", "r", "r", "o", "w", "-", "f", "u", "n", "c", "t", "i",
              "o", "n", "s">>,
         name |->
            <<"A", "r", "r", "o", "w", " ", "F", "u", "n", "c", "t", "i",
              "o", "n", "s">> ],
       [ id |->
            <<"s", "e", "m", "a", "n", "t", "i", "c", "-", "e", "l", "e",
              "m", "e", "n", "t", "s">>,
         name |->
            <<"H", "T", "M", "L", "5", " ", "S", "e", "m", "a", "n", "t",
              "i", "c", " ", "E", "l", "e", "m", "e", "n", "t", "s">> ],
       [ id |->
            <<"c", "u", "s", "t", "o", "m", "-", "p", "r", "o", "p", "e",
              "r", "t", "i", "e", "s">>,
         name |->
            <<"C", "S", "S", " ", "C", "u", "s", "t", "o", "m", " ", "P",
              "r", "o", "p", "e", "r", "t", "i", "e", "s", " ", "(", "V",
              "a", "r", "i", "a", "b", "l", "e", "s", ")">> ],
       [ id |->
            <<"t", "e", "m", "p", "l", "a", "t", "e", "-", "l", "i", "t",
              "e", "r", "a", "l", "s">>,
         name |->
            <<"T", "e", "m", "p", "l", "a", "t", "e", " ", "L", "i", "t",
              "e", "r", "a", "l", "s">> ],
       [ id |->
            <<"o", "b", "j", "e", "c", "t", "-", "s", "p", "r", "e", "a",
              "d">>,
         name |->
            <<"O", "b", "j", "e", "c", "t", " ", "S", "p", "r", "e", "a",
              "d", " ", "S", "y", "n", "t", "a", "x">> ],
       [ id |->
            <<"c", "o", "n", "t", "a", "i", "n", "e", "r", "-", "q", "u",
              "e", "r", "i", "e", "s">>,
         name |->
            <<"C", "S", "S", " ", "C", "o", "n", "t", "a", "i", "n", "e",
              "r", " ", "Q", "u", "e", "r", "i", "e", "s">> ] >>

\* String.prototype.toLowerCase()
UpperCase ==
    <<"A", "B", "C", "D", "E", "F", "G", "H", "I", "J", "K", "L", "M",
      "N", "O", "P", "Q", "R", "S", "T", "U", "V", "W", "X", "Y", "Z">>

LowerCase ==
    <<"a", "b", "c", "d", "e", "f", "g", "h", "i", "j", "k", "l", "m",
      "n", "o", "p", "q", "r", "s", "t", "u", "v", "w", "x", "y", "z">>

toLowerCase(s) ==
    [ i \in 1 .. Len(s) |->
        IF \E j \in 1 .. 26 : UpperCase[j] = s[i]
        THEN LowerCase[CHOOSE j \in 1 .. 26 : UpperCase[j] = s[i]]
        ELSE s[i] ]

\* String.prototype.includes(sub)
includes(s, sub) ==
    \E i \in 0 .. Len(s) - Len(sub) : SubSeq(s, i + 1, i + Len(sub)) = sub

\* featuresMap.get(featureId): the constructor sets featuresMap[feature.id]
\* for each feature in catalog order, so a later feature of the same id
\* would replace an earlier one
featuresMapGet(featureId) ==
    LET keyed == { i \in 1 .. Len(sampleFeatures) :
                      sampleFeatures[i].id = featureId }
    IN  IF keyed = {} THEN Undefined
        ELSE sampleFeatures[CHOOSE i \in keyed : \A j \in keyed : j <= i]

\* sampleFeatures.find(f => f.name.toLowerCase().includes(lowered))
findByName(lowered) ==
    LET named == { i \in 1 .. Len(sampleFeatures) :
                      includes(toLowerCase(sampleFeatures[i].name), lowered) }
    IN  IF named = {} THEN Undefined
        ELSE sampleFeatures[CHOOSE i \in named : \A j \in named : i <= j]

\* a variant that compares the name with the id as given
FeatureInfoCaseSensitive(featureId) ==
    LET keyed == featuresMapGet(featureId)
        named == { i \in 1 .. Len(sampleFeatures) :
                      includes(sampleFeatures[i].name, featureId) }
    IN  IF keyed # Undefined THEN keyed
        ELSE IF named = {} THEN Undefined
        ELSE sampleFeatures[CHOOSE i \in named : \A j \in named : i <= j]

\* getFeatureInfo(featureId): featuresMap.get(featureId) || find(...)
FeatureInfo(featureId) ==
    LET keyed == featuresMapGet(featureId)
    IN  IF keyed # Undefined THEN keyed
        ELSE findByName(toLowerCase(featureId))

getFeatureInfo(featureId) ==
    /\ call' = [op |-> "getFeatureInfo", args |-> <<featureId>>]
    /\ ret' = FeatureInfo(featureId)
    /\ UNCHANGED <<metrics, heap, now, calls>>
    /\ UNCHANGED ui

\* the messages sendFeatureDetails(featureId) posts when this.panel is p;
\* browserSupport and alternatives, read from the same catalog, are left out
FeatureDetails(p, featureId) ==
    LET feature == FeatureInfo(featureId)
    IN  IF p = NoPanel \/ feature = Undefined THEN <<>>
        ELSE << [command |-> "featureDetails",
                 data |-> [feature |-> feature]] >>

(***************************************************************************)
(* BaselineWebviewProvider: the panel, the messages of its webview and the *)
(* confirmation prompt of resetMetrics.  A panel is a number; the editor   *)
(* gives a new panel the least number no existing panel has.               *)
(***************************************************************************)
PanelIds == 1 .. MaxPanels

NewPanel == CHOOSE p \in PanelIds \ panels : \A q \in PanelIds \ panels : p <= q

\* show(): reveals the panel there is, or creates one and loads the sample
\* data
show ==
    /\ call' = [op |-> "show", args |-> <<>>]
    /\ ret' = Undefined
    /\ IF panel # NoPanel
       THEN /\ posted' = <<>>
            /\ UNCHANGED <<metrics, heap, now, calls, panel, panels>>
       ELSE /\ calls < MaxCalls
            /\ calls' = calls + 1
            /\ PanelIds \ panels # {}
            /\ panel' = NewPanel
            /\ panels' = panels \cup {NewPanel}
            /\ \E ts \in ClockReads(now, 6) :
                  LET st == SampleData(Store, ts)
                  IN  /\ metrics' = st.metrics
                      /\ heap' = st.heap
                      /\ now' = st.now
                      /\ posted' = updateDashboard(NewPanel, st)
    /\ UNCHANGED <<prompts, runs>>

\* the user closes a panel; its onDidDispose listener clears this.panel
onDidDispose ==
    /\ \E p \in panels : panels' = panels \ {p}
    /\ panel' = NoPanel
    /\ posted' = <<>>
    /\ call' = [op |-> "onDidDispose", args |-> <<>>]
    /\ ret' = Undefined
    /\ UNCHANGED <<metrics, heap, now, calls, prompts, runs>>

\* case 'refresh': updateDashboard()
refresh ==
    /\ posted' = updateDashboard(panel, Store)
    /\ UNCHANGED <<metrics, heap, now, calls, panel, panels, prompts, runs>>

\* case 'loadSampleData': loadSampleData()
loadSampleData ==
    /\ calls < MaxCalls
    /\ calls' = calls + 1
    /\ \E ts \in ClockReads(now, 6) :
          LET st == SampleData(Store, ts)
          IN  /\ metrics' = st.metrics
              /\ heap' = st.heap
              /\ now' = st.now
              /\ posted' = updateDashboard(panel, st)
    /\ UNCHANGED <<panel, panels, prompts, runs>>

\* case 'resetMetrics': resetMetrics() up to showWarningMessage, which
\* opens the prompt and returns
resetMetrics ==
    /\ prompts < MaxPrompts
    /\ prompts' = prompts + 1
    /\ posted' = <<>>
    /\ UNCHANGED <<metrics, heap, now, calls, panel, panels, runs>>

\* case 'getFeatureDetails': sendFeatureDetails(message.featureId)
sendFeatureDetails(featureId) ==
    /\ posted' = FeatureDetails(panel, featureId)
    /\ UNCHANGED <<metrics, heap, now, calls, panel, panels, prompts, runs>>

\* the messages of the script of the webview: 'refresh'
\* from its timer, 'loadSampleData' when it starts and from its Refresh
\* button, 'resetMetrics' from its Reset button once confirm() is answered
\* with OK, 'getFeatureDetails' from a feature card.  arg is the featureId
\* of 'getFeatureDetails' and empty in the other messages.
Message(command, arg) == [command |-> command, arg |-> arg]

DetailIds == { <<"f", "e", "t", "c", "h">>, <<"c", "s", "s">>, <<"z">> }

\* the messages SpecCommands lets the panel send: the refresh of the timer
\* and the reset
CommandMessages == { Message(c, <<>>) : c \in { "refresh", "resetMetrics" } }

Messages ==
    CommandMessages
        \cup { Message("loadSampleData", <<>>) }
        \cup { Message("getFeatureDetails", id) : id \in DetailIds }

\* the listener the provider registers with onDidReceiveMessage; the
\* webview posts only while its panel exists
onDidReceiveMessage(message) ==
    /\ panel # NoPanel
    /\ call' = [op |-> "onDidReceiveMessage",
                args |-> <<message.command, message.arg>>]
    /\ ret' = Undefined
    /\ CASE message.command = "refresh" -> refresh
         [] message.command = "loadSampleData" -> loadSampleData
         [] message.command = "resetMetrics" -> resetMetrics
         [] message.command = "getFeatureDetails" ->
                sendFeatureDetails(message.arg)

\* what the user answers to the prompt of resetMetrics; "undefined" when the
\* prompt is dismissed
Selections == { "Yes, Reset All", "Cancel", "undefined" }

\* a variant that resets whatever the answer
resetMetricsThenAnyAnswer(selection) ==
    /\ prompts > 0
    /\ prompts' = prompts - 1
    /\ call' = [op |-> "resetMetrics.then", args |-> <<selection>>]
    /\ ret' = Undefined
    /\ \E t1 \in ClockRead(now) : \E t2 \in ClockRead(t1) :
          LET st == ResetStore(t1, t2)
          IN  /\ metrics' = st.metrics
              /\ heap' = st.heap
              /\ now' = st.now
              /\ posted' = updateDashboard(panel, st)
    /\ calls' = 0
    /\ UNCHANGED <<panel, panels, runs>>

\* the callback resetMetrics() gives to showWarningMessage(...).then
resetMetricsThen(selection) ==
    /\ prompts > 0
    /\ prompts' = prompts - 1
    /\ call' = [op |-> "resetMetrics.then", args |-> <<selection>>]
    /\ ret' = Undefined
    /\ IF selection = "Yes, Reset All"
       THEN /\ \E t1 \in ClockRead(now) : \E t2 \in ClockRead(t1) :
                  LET st == ResetStore(t1, t2)
                  IN  /\ metrics' = st.metrics
                      /\ heap' = st.heap
                      /\ now' = st.now
                      /\ posted' = updateDashboard(panel, st)
            /\ calls' = 0
       ELSE /\ posted' = <<>>
            /\ UNCHANGED <<metrics, heap, now, calls>>
    /\ UNCHANGED <<panel, panels, runs>>

NextPanel ==
    \/ show
    \/ onDidDispose
    \/ \E message \in Messages : onDidReceiveMessage(message)
    \/ \E selection \in Selections : resetMetricsThen(selection)

SpecPanel == Init /\ [][NextPanel]_vars

(***************************************************************************)
(* The commands of the extension (src/extension.ts) that record in the     *)
(* store.  Math.random() is a draw from a set.                             *)
(***************************************************************************)
\* vscode.window.activeTextEditor: <<>> when no editor is open, else the
\* fileName and the languageId of its document
ActiveEditors == { <<>>, << <<"src", "/", "app.js">>, "javascript" >> }

\* Math.floor(Math.random() * 8) + 1
FileIssues == { 8 }

\* sampleFeatures[Math.floor(Math.random() * sampleFeatures.length)]
FileFeatures == { "function" }

\* 'baseline-modernizer.analyzeFile'
analyzeFile(activeEditor) ==
    /\ call' = [op |-> "analyzeFile", args |-> <<activeEditor>>]
    /\ ret' = Undefined
    /\ posted' = <<>>
    /\ IF activeEditor = <<>>
       THEN UNCHANGED <<metrics, heap, now, calls>>
       ELSE /\ calls < MaxCalls
            /\ calls' = calls + 1
            /\ \E issuesCount \in FileIssues : \E randomFeature \in FileFeatures :
               \E ts \in ClockReads(now, 2) :
                  LET analysed == RecordedAnalysis(Store,
                          <<activeEditor[1], issuesCount, activeEditor[2]>>,
                          ts[1], ts[2])
                      st == RecordedFeatureUsage(analysed, <<randomFeature>>)
                  IN  /\ metrics' = st.metrics
                      /\ heap' = st.heap
                      /\ now' = st.now
    /\ UNCHANGED <<panel, panels, prompts, runs>>

\* the files of the simulated project; the extension of a file is the last
\* part of its name
projectFiles ==
    << <<"app", ".js">>,
       <<"components", "/", "Header", ".js">>,
       <<"styles", "/", "main", ".css">>,
       <<"utils", "/", "api", ".js">>,
       <<"index", ".html">> >>

endsWith(file, extension) == file[Len(file)] = extension

LanguageOf(file) ==
    IF endsWith(file, ".js") THEN "javascript"
    ELSE IF endsWith(file, ".css") THEN "css"
    ELSE IF endsWith(file, ".html") THEN "html"
    ELSE "typescript"

\* Math.floor(Math.random() * 5) + 1
ProjectIssues == { 5 }

\* the features for which Math.random() > 0.5, in the order of forEach
ProjectFeatures == { <<"var", "<b><i><u>">> }

\* 'baseline-modernizer.analyzeProject' up to the call of withProgress:
\* the loop starts at i = 0
analyzeProject(workspaceFolders) ==
    /\ call' = [op |-> "analyzeProject", args |-> <<workspaceFolders>>]
    /\ ret' = Undefined
    /\ posted' = <<>>
    /\ IF workspaceFolders
       THEN /\ Len(runs) < MaxRuns
            /\ runs' = Append(runs, 0)
       ELSE UNCHANGED runs
    /\ UNCHANGED <<metrics, heap, now, calls, panel, panels, prompts>>

\* one turn of the loop of a run, from progress.report to
\* await new Promise(resolve => setTimeout(resolve, 500)).  A run holds
\* nothing but its index i, so runs at the same file are alike: runs keeps
\* them in the order of their progress, and of the runs at one file the
\* first one takes the turn.
analyzeProjectFile(run) ==
    /\ runs[run] < Len(projectFiles)
    /\ IF run = 1 THEN TRUE ELSE runs[run - 1] > runs[run]
    /\ calls < MaxCalls
    /\ calls' = calls + 1
    /\ \E issuesCount \in ProjectIssues : \E features \in ProjectFeatures :
       \E ts \in ClockReads(now, 2) :
          LET file == projectFiles[runs[run] + 1]
              analysed == RecordedAnalysis(Store,
                              <<file, issuesCount, LanguageOf(file)>>,
                              ts[1], ts[2])
              st == RecordedFeatureUsages(analysed, features)
          IN  /\ metrics' = st.metrics
              /\ heap' = st.heap
              /\ now' = st.now
    /\ runs' = [runs EXCEPT ![run] = @ + 1]
    /\ call' = [op |-> "analyzeProject.file", args |-> <<run>>]
    /\ ret' = Undefined
    /\ posted' = <<>>
    /\ UNCHANGED <<panel, panels, prompts>>

\* the loop of a run ends after the last file and withProgress returns
analyzeProjectDone(run) ==
    /\ runs[run] = Len(projectFiles)
    /\ run = 1
    /\ runs' = [i \in 1 .. Len(runs) - 1 |->
                   IF i < run THEN runs[i] ELSE runs[i + 1]]
    /\ call' = [op |-> "analyzeProject.done", args |-> <<run>>]
    /\ ret' = Undefined
    /\ posted' = <<>>
    /\ UNCHANGED <<metrics, heap, now, calls, panel, panels, prompts>>

(***************************************************************************)
(* SpecCommands: the handlers of the provider and the commands, in any     *)
(* order; a run of analyzeProject gives way to the others between two      *)
(* files.                                                                  *)
(***************************************************************************)
\* the inputs with which a handler does something: an editor is open, a
\* workspace folder is open, the prompt is answered by one of its buttons
OpenEditors == ActiveEditors \ { <<>> }

Answers == Selections \ { "undefined" }

NextCommands ==
    \/ show
    \/ \E message \in CommandMessages : onDidReceiveMessage(message)
    \/ \E selection \in Answers : resetMetricsThen(selection)
    \/ \E activeEditor \in OpenEditors : analyzeFile(activeEditor)
    \/ analyzeProject(TRUE)
    \/ \E run \in 1 .. Len(runs) : analyzeProjectFile(run)
    \/ \E run \in 1 .. Len(runs) : analyzeProjectDone(run)

SpecCommands == Init /\ [][NextCommands]_vars

(***************************************************************************)
(* SpecRefresh: the panel opened and closed, analyzeFile, and the          *)
(* 'refresh' message.  The script of the webview posts 'refresh' from      *)
(* setInterval every 60 s for as long as the panel exists (the panel is    *)
(* created with retainContextWhenHidden), so while the panel stays open    *)
(* the listener receives 'refresh' again and again.                        *)
(***************************************************************************)
NextRefresh ==
    \/ show
    \/ onDidDispose
    \/ onDidReceiveMessage(Message("refresh", <<>>))
    \/ \E activeEditor \in OpenEditors : analyzeFile(activeEditor)

\* a step in which the listener receives the 'refresh' of the timer
timerRefresh ==
    /\ panel # NoPanel
    /\ call' = [op |-> "onDidReceiveMessage", args |-> <<"refresh", <<>>>>]

SpecRefresh ==
    /\ Init
    /\ [][NextRefresh]_vars
    /\ WF_call(timerRefresh)

(***************************************************************************)
(* SpecCatalog: the lookup of a feature, by getFeatureInfo and by the      *)
(* 'getFeatureDetails' message of the panel, for the ids of the catalog,    *)
(* two of its names and strings that are neither.                          *)
(***************************************************************************)
OtherIds ==
    { <<>>,
      <<"c", "s", "s">>,
      <<"C", "S", "S">>,
      <<"v", "a", "r">>,
      <<"f", "l", "o", "a", "t">>,
      <<"F", "e", "t", "c", "h">>,
      <<"F", "L", "E", "X", "B", "O", "X">>,
      <<"s", " ", "c">>,
      <<"a", "p", "i", "s">>,
      <<"z">> }

LookupIds ==
    { sampleFeatures[i].id : i \in 1 .. Len(sampleFeatures) }
        \cup { sampleFeatures[i].name : i \in { 2, 7 } }
        \cup OtherIds

NextCatalog ==
    \/ \E featureId \in LookupIds : getFeatureInfo(featureId)
    \/ show
    \/ \E featureId \in LookupIds :
          onDidReceiveMessage(Message("getFeatureDetails", featureId))

SpecCatalog == Init /\ [][NextCatalog]_vars

(***************************************************************************)
(* The statements checked of the model.                                    *)
(***************************************************************************)
Max(a, b) == IF a >= b THEN a ELSE b

\* the formula of the data model for the progress, from the counters alone
ClosedFormProgress(files, issues, fixes) ==
    IF files > 0 /\ issues = 0 THEN 100
    ELSE IF files = 0 THEN 0
    ELSE Max(0, Min(100, Round(fixes * 100, issues)))

\* the part of a path after its last "/"
LastSegment(path) ==
    LET slashes == { i \in 1 .. Len(path) : path[i] = "/" }
    IN  IF slashes = {} THEN path
        ELSE SubSeq(path,
                    (CHOOSE i \in slashes : \A j \in slashes : j <= i) + 1,
                    Len(path))

\* C1: in every state reached by recordAnalysis (issuesCount >= 0),
\* recordFix, recordFeatureUsage and reset, the stored modernizationProgress
\* is the closed form of the current counters: 100 if filesAnalyzed > 0 and
\* issuesFound = 0, else 0 if filesAnalyzed = 0, else
\* round(fixesApplied / issuesFound * 100) clamped to [0, 100].
C1_ProgressIsClosedForm ==
    metrics.modernizationProgress =
        ClosedFormProgress(metrics.filesAnalyzed, metrics.issuesFound,
                           metrics.fixesApplied)

\* one fix of eight issues: 12.5 is rounded to 13
C1_Witness ==
    /\ metrics.filesAnalyzed = 2
    /\ metrics.issuesFound = 2 * MaxIssues
    /\ metrics.fixesApplied = 1
    /\ metrics.modernizationProgress = Round(100, 2 * MaxIssues)

\* C3: after reset(), whatever was recorded before, the store is in the
\* zero state of construction: the four numbers are 0, featureUsage and both
\* histories are empty, getMostUsedFeatures is empty, and sessionStartTime
\* is the time of the reset.
C3_ResetRestoresZeroState ==
    call.op = "reset" =>
        /\ metrics.filesAnalyzed = 0
        /\ metrics.issuesFound = 0
        /\ metrics.fixesApplied = 0
        /\ metrics.modernizationProgress = 0
        /\ FeatureUsage = <<>>
        /\ AnalysisHistory = <<>>
        /\ FixHistory = <<>>
        /\ MostUsedFeatures(FeatureUsage) = <<>>
        /\ ReversedCopy(heap, metrics.analysisHistory).result = <<>>
        /\ ReversedCopy(heap, metrics.fixHistory).result = <<>>
        /\ metrics.sessionStartTime = now

\* a reset at a later instant than the construction
C3_Witness ==
    /\ call.op = "reset"
    /\ metrics.sessionStartTime = MaxTime
    /\ metrics.lastAnalysis < metrics.sessionStartTime

\* C6: recordAnalysis(file, issuesCount, language), for any integer
\* issuesCount, adds 1 to filesAnalyzed and issuesCount to issuesFound and
\* appends the one entry {timestamp, basename(file), issuesCount, language}
\* to analysisHistory; fixesApplied, featureUsage, fixHistory and
\* sessionStartTime stay as they are.
C6_RecordAnalysisEffect ==
    [][call'.op = "recordAnalysis" =>
        LET args == call'.args
            old == AnalysisHistory
            new == AnalysisHistory'
        IN  /\ metrics'.filesAnalyzed = metrics.filesAnalyzed + 1
            /\ metrics'.issuesFound = metrics.issuesFound + args[2]
            /\ Len(new) = Len(old) + 1
            /\ SubSeq(new, 1, Len(old)) = old
            /\ new[Len(new)].fileName = LastSegment(args[1])
            /\ new[Len(new)].issuesCount = args[2]
            /\ new[Len(new)].language =
                   (IF Len(args) >= 3 THEN args[3] ELSE "unknown")
            /\ new[Len(new)].timestamp \in now .. now'
            /\ metrics'.fixesApplied = metrics.fixesApplied
            /\ metrics'.sessionStartTime = metrics.sessionStartTime
            /\ FeatureUsage' = FeatureUsage
            /\ FixHistory' = FixHistory
    ]_vars

\* an analysis with a negative issuesCount has been recorded
C6_Witness ==
    /\ call.op = "recordAnalysis"
    /\ call.args[2] < 0
    /\ metrics.issuesFound < 0
    /\ AnalysisHistory[Len(AnalysisHistory)].issuesCount < 0

\* C7: recordFix(featureId, file?) adds 1 to fixesApplied, appends one entry
\* to fixHistory and recomputes modernizationProgress; filesAnalyzed,
\* issuesFound, featureUsage, analysisHistory, lastAnalysis and
\* sessionStartTime stay as they are.  After one analysis with 4 issues and
\* two fixes the progress is 50.
C7_RecordFixEffect ==
    [][call'.op = "recordFix" =>
        LET args == call'.args
            old == FixHistory
            new == FixHistory'
        IN  /\ metrics'.fixesApplied = metrics.fixesApplied + 1
            /\ Len(new) = Len(old) + 1
            /\ SubSeq(new, 1, Len(old)) = old
            /\ new[Len(new)].featureId = args[1]
            /\ new[Len(new)].fileName =
                   (IF Len(args) >= 2 THEN LastSegment(args[2]) ELSE <<>>)
            /\ metrics'.modernizationProgress =
                   ClosedFormProgress(metrics'.filesAnalyzed,
                                      metrics'.issuesFound,
                                      metrics'.fixesApplied)
            /\ (metrics'.filesAnalyzed = 1 /\ metrics'.issuesFound = 4
                   /\ metrics'.fixesApplied = 2
                   => metrics'.modernizationProgress = 50)
            /\ metrics'.filesAnalyzed = metrics.filesAnalyzed
            /\ metrics'.issuesFound = metrics.issuesFound
            /\ metrics'.lastAnalysis = metrics.lastAnalysis
            /\ metrics'.sessionStartTime = metrics.sessionStartTime
            /\ FeatureUsage' = FeatureUsage
            /\ AnalysisHistory' = AnalysisHistory
    ]_vars

\* one analysis with 4 issues, then two fixes
C7_Witness ==
    /\ call.op = "recordFix"
    /\ metrics.filesAnalyzed = 1
    /\ metrics.issuesFound = 4
    /\ metrics.fixesApplied = 2
    /\ metrics.modernizationProgress = 50

MetricsValue(m, h) == Obj(MetricsProps(m, h))

CallerOps ==
    { "snapshot.counter = 0", "snapshot.featureUsage[id] = 0",
      "snapshot.history.pop()" }

ReadOps ==
    { "getMetrics", "getMostUsedFeatures", "getAnalysisHistory",
      "getFixHistory", "getSessionStats", "exportMetrics",
      "generateRecommendations", "generateTimelineData" }

\* C2: a value returned by getMetrics() is isolated from the store: whatever
\* the caller writes to the snapshot (its counters, its featureUsage, its
\* histories), getMetrics, getMostUsedFeatures, getAnalysisHistory and
\* getFixHistory return afterwards what they returned before the write.
C2_SnapshotIsIsolated ==
    [][call'.op \in CallerOps =>
        /\ MetricsValue(metrics', heap') = MetricsValue(metrics, heap)
        /\ MostUsedFeatures(FeatureUsage') = MostUsedFeatures(FeatureUsage)
        /\ ReversedCopy(heap', metrics'.analysisHistory).result
               = ReversedCopy(heap, metrics.analysisHistory).result
        /\ ReversedCopy(heap', metrics'.fixHistory).result
               = ReversedCopy(heap, metrics.fixHistory).result
    ]_vars

\* C4: each read or derivation operation leaves every field of the store
\* and the objects it refers to unchanged, and getMetrics() returns the
\* value of the store, so that two calls with only reads in between return
\* equal snapshots.
C4_ReadsLeaveStoreUnchanged ==
    [][call'.op \in ReadOps =>
        /\ metrics' = metrics
        /\ heap' = heap
        /\ calls' = calls
        /\ (call'.op = "getMetrics" =>
               /\ ret'.kind = "metrics"
               /\ MetricsValue(ret'.value, heap') = MetricsValue(metrics, heap))
    ]_vars

\* a snapshot of a store that holds an analysis, a fix and a feature
C4_Witness ==
    /\ call.op = "getMetrics"
    /\ ret.kind = "metrics"
    /\ ret.value.filesAnalyzed = 1
    /\ Len(heap[ret.value.analysisHistory]) = 1
    /\ Len(heap[ret.value.fixHistory]) = 1
    /\ Len(heap[ret.value.featureUsage]) = 1

\* the place of entry j of featureUsage by descending count, the entries of
\* one count in the order of their first recording
Rank(usage, j) ==
    1 + Cardinality({ k \in 1 .. Len(usage) :
            \/ usage[k].count > usage[j].count
            \/ usage[k].count = usage[j].count /\ k < j })

TopByRank(usage, result, limit) ==
    /\ Len(result) = Min(limit, Len(usage))
    /\ \A j \in 1 .. Len(usage) :
           Rank(usage, j) <= Len(result) => result[Rank(usage, j)] = usage[j]

\* C5 as stated: getMostUsedFeatures(limit, default 10) returns at most
\* limit pairs, those of the highest counts by descending count, equal
\* counts in the order of first recording.
C5_TopLimit ==
    call.op = "getMostUsedFeatures" =>
        TopByRank(FeatureUsage, ret.value,
                  IF Len(call.args) >= 1 THEN call.args[1] ELSE 10)

\* C5 as amended: getMostUsedFeatures() takes no limit; whatever it is called
\* with, it returns at most 10 pairs, those of the highest counts by
\* descending count, equal counts in the order of first recording.
C5_TopTen ==
    call.op = "getMostUsedFeatures" =>
        TopByRank(FeatureUsage, ret.value, 10)

\* more than 10 features, with equal counts among those returned and left out
C5_Witness ==
    /\ call.op = "getMostUsedFeatures"
    /\ Len(FeatureUsage) > 10
    /\ Len(ret.value) = 10
    /\ ret.value[1].count = 2
    /\ ret.value[10].count = 1
    /\ FeatureUsage[1].count = 1
    /\ \E j \in 1 .. Len(FeatureUsage) :
           FeatureUsage[j].count = 1 /\ Rank(FeatureUsage, j) > 10

\* C9: getAnalysisHistory() and getFixHistory() return the stored history
\* reversed (same length, same entries, the newest first) and leave the
\* stored history in its append order, so that the next append lands after
\* the entry that was the newest.
C9_HistoryReversedCopy ==
    [][/\ call'.op = "getAnalysisHistory" =>
              /\ Len(ret'.value) = Len(AnalysisHistory)
              /\ \A i \in 1 .. Len(AnalysisHistory) :
                     ret'.value[i] = AnalysisHistory[Len(AnalysisHistory) + 1 - i]
              /\ AnalysisHistory' = AnalysisHistory
       /\ call'.op = "getFixHistory" =>
              /\ Len(ret'.value) = Len(FixHistory)
              /\ \A i \in 1 .. Len(FixHistory) :
                     ret'.value[i] = FixHistory[Len(FixHistory) + 1 - i]
              /\ FixHistory' = FixHistory
       /\ call'.op = "recordAnalysis" =>
              AnalysisHistory = SubSeq(AnalysisHistory', 1, Len(AnalysisHistory') - 1)
       /\ call'.op = "recordFix" =>
              FixHistory = SubSeq(FixHistory', 1, Len(FixHistory') - 1)
    ]_vars

\* two analyses that differ, the later one returned first
C9_Witness ==
    /\ call.op = "getAnalysisHistory"
    /\ Len(ret.value) = 2
    /\ ret.value[1] # ret.value[2]
    /\ ret.value[1] = AnalysisHistory[2]
    /\ ret.value[2] = AnalysisHistory[1]

\* C10: the text exportMetrics() returns parses to an object whose
\* filesAnalyzed, issuesFound, fixesApplied, modernizationProgress and
\* featureUsage are those getMetrics() returns at the time of the export,
\* and which holds the session statistics, an export timestamp and a version.
C10_ExportRoundTrip ==
    call.op = "exportMetrics" =>
        LET parsed == JsonParse(ret.value)
            snapshot == ShallowCopy(metrics)
        IN  /\ parsed.t = "obj"
            /\ \A k \in { "filesAnalyzed", "issuesFound", "fixesApplied",
                          "modernizationProgress", "featureUsage",
                          "sessionStats", "exportTimestamp", "version" } :
                   HasProp(parsed, k)
            /\ GetProp(parsed, "filesAnalyzed") = Num(snapshot.filesAnalyzed)
            /\ GetProp(parsed, "issuesFound") = Num(snapshot.issuesFound)
            /\ GetProp(parsed, "fixesApplied") = Num(snapshot.fixesApplied)
            /\ GetProp(parsed, "modernizationProgress")
                   = Num(snapshot.modernizationProgress)
            /\ GetProp(parsed, "featureUsage")
                   = UsageValue(heap[snapshot.featureUsage])
            /\ GetProp(parsed, "sessionStats").t = "obj"
            /\ GetProp(GetProp(parsed, "sessionStats"), "filesAnalyzedThisSession")
                   = Num(snapshot.filesAnalyzed)
            /\ GetProp(parsed, "exportTimestamp").t = "str"
            /\ GetProp(parsed, "version") = Str("1.0.0")

\* an export of a store that holds an analysis, a fix and a feature count
C10_Witness ==
    /\ call.op = "exportMetrics"
    /\ metrics.filesAnalyzed = 1
    /\ metrics.fixesApplied = 1
    /\ metrics.modernizationProgress > 0
    /\ Len(FeatureUsage) = 1
    /\ Len(GetProp(JsonParse(ret.value), "analysisHistory").v) = 1


IdsOf(recommendations) ==
    [i \in 1 .. Len(recommendations) |-> recommendations[i].id]

HasId(recommendations, id) ==
    \E i \in 1 .. Len(recommendations) : recommendations[i].id = id

\* C11: no derived quantity divides by zero.  With issuesFound = 0 the
\* stored progress is 0 or 100, the completion rate of the timeline is 0
\* and there is no low_fix_rate recommendation; with filesAnalyzed = 0 the
\* average issues per file is 0 and there is no high_density
\* recommendation; every derived value is a number.
C11_NoDivisionByZero ==
    /\ metrics.modernizationProgress \in Int
    /\ metrics.issuesFound = 0 => metrics.modernizationProgress \in { 0, 100 }
    /\ call.op = "generateTimelineData" =>
           /\ \A i \in 1 .. Len(ret.value) : ret.value[i].progress \in Int
           /\ metrics.issuesFound = 0 =>
                  /\ ret.value[3].progress = 0
                  /\ ret.value[3].status = "pending"
    /\ call.op = "generateRecommendations" =>
           /\ metrics.issuesFound = 0 => ~HasId(ret.value, "low_fix_rate")
           /\ metrics.filesAnalyzed = 0 => ~HasId(ret.value, "high_density")
    /\ call.op = "getSessionStats" =>
           /\ ret.value.duration \in Int
           /\ ret.value.averageIssuesPerFile.t \in { "num", "num10" }
           /\ ret.value.averageIssuesPerFile.v \in Int
           /\ metrics.filesAnalyzed = 0 =>
                  ret.value.averageIssuesPerFile = Num(0)

\* a timeline of a store with files and fixes and no issue
C11_Witness ==
    /\ call.op = "generateTimelineData"
    /\ metrics.filesAnalyzed > 0
    /\ metrics.issuesFound = 0
    /\ metrics.fixesApplied > 0
    /\ metrics.modernizationProgress = 100
    /\ ret.value[3].progress = 0

FixedOrder ==
    << "low_fix_rate", "high_density", "common_pattern",
       "baseline_adoption", "browser_compatibility" >>

FixedTypes == << "priority", "warning", "info", "suggestion", "info" >>

OrderIndex(id) == CHOOSE i \in 1 .. Len(FixedOrder) : FixedOrder[i] = id

\* the condition of each rule, as a predicate of the store
RuleHolds(id) ==
    IF id = "low_fix_rate"
    THEN /\ metrics.issuesFound > 0
         /\ Round(metrics.fixesApplied * 100, metrics.issuesFound) < 50
    ELSE IF id = "high_density"
    THEN /\ metrics.filesAnalyzed > 0
         /\ Round(metrics.issuesFound, metrics.filesAnalyzed) > 2
    ELSE IF id = "common_pattern"
    THEN FeatureUsage # <<>>
    ELSE TRUE

FirstRuleThatHolds ==
    FixedOrder[CHOOSE i \in 1 .. Len(FixedOrder) :
        /\ RuleHolds(FixedOrder[i])
        /\ \A j \in 1 .. i - 1 : ~RuleHolds(FixedOrder[j])]

InFixedOrder(recommendations) ==
    LET n == Len(recommendations)
    IN  /\ \A i \in 1 .. n :
               /\ \E k \in 1 .. Len(FixedOrder) : recommendations[i].id = FixedOrder[k]
               /\ recommendations[i].type = FixedTypes[OrderIndex(recommendations[i].id)]
        /\ \A i \in 1 .. n : \A j \in i + 1 .. n :
               OrderIndex(recommendations[i].id) < OrderIndex(recommendations[j].id)
        /\ n >= 2
        /\ recommendations[n - 1].id = "baseline_adoption"
        /\ recommendations[n].id = "browser_compatibility"
        /\ recommendations[1].id = FirstRuleThatHolds

\* C12: the recommendation list follows the fixed order low_fix_rate
\* (priority), high_density (warning), common_pattern (info),
\* baseline_adoption (suggestion), browser_compatibility (info) without a
\* repeated id, it ends with baseline_adoption and browser_compatibility, so
\* it is never empty, and the top recommendation of the exported document is
\* the title of the first rule in that order whose condition holds.
C12_RecommendationsInFixedOrder ==
    /\ call.op = "generateRecommendations" => InFixedOrder(ret.value)
    /\ call.op = "webview.exportMetrics" =>
           /\ InFixedOrder(ret.value.recommendations)
           /\ ret.value.summary.topRecommendation
                  = ret.value.recommendations[1].title
           /\ ret.value.summary.topRecommendation # "None"

\* an export whose list holds the five recommendations
C12_Witness ==
    /\ call.op = "webview.exportMetrics"
    /\ IdsOf(ret.value.recommendations) = FixedOrder
    /\ ret.value.summary.topRecommendation = "Apply Available Quick Fixes"

WithId(recommendations, id) ==
    recommendations[CHOOSE i \in 1 .. Len(recommendations) :
                        recommendations[i].id = id]

\* C13: low_fix_rate (priority) is in the list exactly when issuesFound > 0
\* and round(fixesApplied / issuesFound * 100) < 50, and its description
\* then gives the current issuesFound and that rounded percentage.
C13_LowFixRateRule ==
    call.op = "generateRecommendations" =>
        /\ HasId(ret.value, "low_fix_rate") <=>
               /\ metrics.issuesFound > 0
               /\ Round(metrics.fixesApplied * 100, metrics.issuesFound) < 50
        /\ HasId(ret.value, "low_fix_rate") =>
               /\ WithId(ret.value, "low_fix_rate").type = "priority"
               /\ WithId(ret.value, "low_fix_rate").description
                      = "You have " \o ToString(metrics.issuesFound)
                        \o " issues but only "
                        \o ToString(Round(metrics.fixesApplied * 100,
                                          metrics.issuesFound))
                        \o "% fixed. Use VS Code's quick fix actions (Ctrl+.) to modernize your code faster."

\* 10 issues and 1 fix: the rule fires with 10 %
C13_Witness ==
    /\ call.op = "generateRecommendations"
    /\ metrics.issuesFound = 10
    /\ metrics.fixesApplied = 1
    /\ HasId(ret.value, "low_fix_rate")
    /\ ret.value[1].description
           = "You have 10 issues but only 10% fixed. Use VS Code's quick fix actions (Ctrl+.) to modernize your code faster."

\* C14: high_density (warning) is in the list exactly when filesAnalyzed > 0
\* and round(issuesFound / filesAnalyzed) > 2, that is when the average is
\* at least 2.5, and its description then gives that rounded average.
C14_HighDensityRule ==
    call.op = "generateRecommendations" =>
        /\ HasId(ret.value, "high_density") <=>
               /\ metrics.filesAnalyzed > 0
               /\ Round(metrics.issuesFound, metrics.filesAnalyzed) > 2
        /\ HasId(ret.value, "high_density") <=>
               /\ metrics.filesAnalyzed > 0
               /\ 2 * metrics.issuesFound >= 5 * metrics.filesAnalyzed
        /\ HasId(ret.value, "high_density") =>
               /\ WithId(ret.value, "high_density").type = "warning"
               /\ WithId(ret.value, "high_density").description
                      = "Average "
                        \o ToString(Round(metrics.issuesFound,
                                          metrics.filesAnalyzed))
                        \o " legacy patterns per file. Prioritize files with the most issues for maximum impact."

\* 2 files and 5 issues: an average of 2.5, given as 3
C14_Witness ==
    /\ call.op = "generateRecommendations"
    /\ metrics.filesAnalyzed = 2
    /\ metrics.issuesFound = 5
    /\ HasId(ret.value, "high_density")
    /\ WithId(ret.value, "high_density").description
           = "Average 3 legacy patterns per file. Prioritize files with the most issues for maximum impact."

\* the entry of featureUsage with the largest count, the first recorded
\* among those of that count
MaxUsage(usage) ==
    usage[CHOOSE j \in 1 .. Len(usage) :
        /\ \A k \in 1 .. Len(usage) : usage[k].count <= usage[j].count
        /\ \A k \in 1 .. j - 1 : usage[k].count < usage[j].count]

PhaseNames ==
    << "Assessment", "Planning", "Implementation", "Testing", "Deployment" >>

PhaseDurations ==
    << "1-2 days", "2-3 days", "1-2 weeks", "3-5 days", "1-2 days" >>

PhasePriorities == << "high", "high", "medium", "high", "low" >>

PhaseTasks ==
    << << "Scan codebase for legacy patterns",
          "Identify browser compatibility gaps",
          "Catalog modernization opportunities",
          "Generate baseline compatibility report" >>,
       << "Prioritize issues by impact",
          "Research modern alternatives",
          "Plan migration strategy",
          "Set up testing framework" >>,
       << "Replace var with let/const",
          "Migrate XMLHttpRequest to Fetch",
          "Convert float layouts to Flexbox",
          "Update semantic HTML structure" >>,
       << "Test across target browsers",
          "Validate performance improvements",
          "Check accessibility compliance",
          "Verify responsive behavior" >>,
       << "Deploy to staging environment",
          "Run automated tests",
          "Monitor performance metrics",
          "Deploy to production" >> >>

\* C16: for every store the timeline has exactly the 5 phases Assessment,
\* Planning, Implementation, Testing, Deployment in this order, each with a
\* duration label, a priority label and a task list that do not depend on
\* the counters.
C16_TimelineFixedPhases ==
    call.op = "generateTimelineData" =>
        /\ Len(ret.value) = 5
        /\ \A i \in 1 .. 5 :
               /\ ret.value[i].phase = PhaseNames[i]
               /\ ret.value[i].duration = PhaseDurations[i]
               /\ ret.value[i].priority = PhasePriorities[i]
               /\ ret.value[i].tasks = PhaseTasks[i]

\* the timeline of a store in which every phase has left 'pending'
C16_Witness ==
    /\ call.op = "generateTimelineData"
    /\ metrics.filesAnalyzed = 3
    /\ metrics.issuesFound = 5
    /\ metrics.fixesApplied = 5
    /\ \A i \in 1 .. 5 : ret.value[i].status # "pending"

\* completionRate as the statements give it
RateOf(issues, fixes) == IF issues > 0 THEN Round(fixes * 100, issues) ELSE 0

\* C17: the Implementation phase has progress completionRate =
\* (issuesFound > 0 ? round(fixesApplied / issuesFound * 100) : 0) and
\* status 'completed' if completionRate >= 100, 'in-progress' if
\* 0 < completionRate < 100, 'pending' if completionRate = 0.
C17_ImplementationPhase ==
    call.op = "generateTimelineData" =>
        LET rate == RateOf(metrics.issuesFound, metrics.fixesApplied)
            implementation == ret.value[3]
        IN  /\ implementation.phase = "Implementation"
            /\ implementation.progress = rate
            /\ rate >= 100 => implementation.status = "completed"
            /\ (0 < rate /\ rate < 100) => implementation.status = "in-progress"
            /\ rate = 0 => implementation.status = "pending"
            /\ rate >= 0

\* 3 files, 10 issues, 1 fix: in-progress with progress 10
C17_Witness ==
    /\ call.op = "generateTimelineData"
    /\ metrics.filesAnalyzed = 3
    /\ metrics.issuesFound = 10
    /\ metrics.fixesApplied = 1
    /\ ret.value[3].status = "in-progress"
    /\ ret.value[3].progress = 10
    /\ ret.value[4].status = "pending"

\* C18: Assessment is 'completed' with progress 100 exactly when
\* filesAnalyzed > 0, Planning is 'completed' with progress 100 exactly when
\* issuesFound > 0; otherwise the phase is 'pending' with progress 0.
C18_AssessmentAndPlanning ==
    call.op = "generateTimelineData" =>
        LET assessment == ret.value[1]
            planning == ret.value[2]
        IN  /\ assessment.phase = "Assessment"
            /\ planning.phase = "Planning"
            /\ IF metrics.filesAnalyzed > 0
               THEN assessment.status = "completed" /\ assessment.progress = 100
               ELSE assessment.status = "pending" /\ assessment.progress = 0
            /\ IF metrics.issuesFound > 0
               THEN planning.status = "completed" /\ planning.progress = 100
               ELSE planning.status = "pending" /\ planning.progress = 0

\* files analysed and no issue found: Assessment completed, Planning pending
C18_Witness ==
    /\ call.op = "generateTimelineData"
    /\ metrics.filesAnalyzed > 0
    /\ metrics.issuesFound = 0
    /\ ret.value[1].status = "completed"
    /\ ret.value[2].status = "pending"

\* C19: Testing is 'in-progress' with progress 60 exactly when
\* completionRate >= 80, Deployment is 'ready' with progress 100 exactly when
\* completionRate >= 100; otherwise the phase is 'pending' with progress 0.
C19_TestingAndDeployment ==
    call.op = "generateTimelineData" =>
        LET rate == RateOf(metrics.issuesFound, metrics.fixesApplied)
            testing == ret.value[4]
            deployment == ret.value[5]
        IN  /\ testing.phase = "Testing"
            /\ deployment.phase = "Deployment"
            /\ IF rate >= 80
               THEN testing.status = "in-progress" /\ testing.progress = 60
               ELSE testing.status = "pending" /\ testing.progress = 0
            /\ IF rate >= 100
               THEN deployment.status = "ready" /\ deployment.progress = 100
               ELSE deployment.status = "pending" /\ deployment.progress = 0

\* 4 of 5 issues fixed: a rate of exactly 80, Testing in progress
C19_Witness ==
    /\ call.op = "generateTimelineData"
    /\ metrics.issuesFound = 5
    /\ metrics.fixesApplied = 4
    /\ ret.value[4].status = "in-progress"
    /\ ret.value[4].progress = 60
    /\ ret.value[5].status = "pending"

\* C20: in every state reached by recording operations with issue counts
\* >= 0, also with more fixes than issues, the progress of each of the five
\* phases of the timeline is an integer from 0 to 100.
C20_PhaseProgressInRange ==
    call.op = "generateTimelineData" =>
        \A i \in 1 .. Len(ret.value) : ret.value[i].progress \in 0 .. 100

RecordingOps == { "recordAnalysis", "recordFix", "recordFeatureUsage" }

\* history' is history, or history with one entry appended
AppendedTo(before, after) ==
    /\ Len(after) \in { Len(before), Len(before) + 1 }
    /\ SubSeq(after, 1, Len(before)) = before

\* the entry a step appended, if any, against the entries already there
NewestCompared(before, after, strictly) ==
    Len(after) = Len(before) + 1 =>
        \A i \in 1 .. Len(before) :
            IF strictly
            THEN after[Len(after)].timestamp > before[i].timestamp
            ELSE after[Len(after)].timestamp >= before[i].timestamp

\* C22 as stated: every recording operation leaves the entries of both
\* histories unchanged and in place, and the timestamp of an appended entry
\* is greater than the timestamp of every entry already in that history.
C22_HistoriesStrictlyOrdered ==
    [][call'.op \in RecordingOps =>
          /\ AppendedTo(AnalysisHistory, AnalysisHistory')
          /\ AppendedTo(FixHistory, FixHistory')
          /\ NewestCompared(AnalysisHistory, AnalysisHistory', TRUE)
          /\ NewestCompared(FixHistory, FixHistory', TRUE)
    ]_vars

\* C22 as amended: every recording operation leaves the entries of both
\* histories unchanged and in place, and the timestamp of an appended entry
\* is greater than or equal to the timestamp of every entry already in that
\* history.
C22_HistoriesOrdered ==
    [][call'.op \in RecordingOps =>
          /\ AppendedTo(AnalysisHistory, AnalysisHistory')
          /\ AppendedTo(FixHistory, FixHistory')
          /\ NewestCompared(AnalysisHistory, AnalysisHistory', FALSE)
          /\ NewestCompared(FixHistory, FixHistory', FALSE)
    ]_vars

\* two fixes recorded within one millisecond after an earlier one
C22_Witness ==
    /\ call.op = "recordFix"
    /\ Len(FixHistory) = 3
    /\ FixHistory[1].timestamp < FixHistory[2].timestamp
    /\ FixHistory[2].timestamp = FixHistory[3].timestamp

\* C24: right after every recordAnalysis call, lastAnalysis equals the
\* timestamp of the entry the call appended to analysisHistory.
C24_LastAnalysisIsEntryTimestamp ==
    call.op = "recordAnalysis" =>
        /\ Len(AnalysisHistory) >= 1
        /\ metrics.lastAnalysis
               = AnalysisHistory[Len(AnalysisHistory)].timestamp

\* C27: in every state reached through recordAnalysis, recordFix,
\* recordFeatureUsage and reset the counters agree with the histories:
\* analysisHistory has filesAnalyzed entries, fixHistory has fixesApplied
\* entries and issuesFound is the sum of the issuesCount of the entries of
\* analysisHistory.
C27_CountersAgreeWithHistories ==
    /\ Len(AnalysisHistory) = metrics.filesAnalyzed
    /\ Len(FixHistory) = metrics.fixesApplied
    /\ SumIssues(AnalysisHistory) = metrics.issuesFound

\* a second session: after a reset, an analysis with a negative count and a fix
C27_Witness ==
    /\ calls = 2
    /\ metrics.sessionStartTime > 0
    /\ metrics.filesAnalyzed = 1
    /\ metrics.issuesFound = -1
    /\ metrics.fixesApplied = 1

Status(timeline, i) == timeline[i].status

\* C28: the timeline never shows a later phase as non-pending while an
\* earlier phase is pending: Planning completed implies Assessment
\* completed, Implementation non-pending implies Planning completed, Testing
\* in-progress implies Implementation non-pending, Deployment ready implies
\* Implementation completed and Testing in-progress.
C28_PhasesInOrder ==
    call.op = "generateTimelineData" =>
        LET t == ret.value
        IN  /\ \A i \in 1 .. 5 : \A j \in i + 1 .. 5 :
                   Status(t, j) # "pending" => Status(t, i) # "pending"
            /\ Status(t, 2) = "completed" => Status(t, 1) = "completed"
            /\ Status(t, 3) # "pending" => Status(t, 2) = "completed"
            /\ Status(t, 4) = "in-progress" => Status(t, 3) # "pending"
            /\ Status(t, 5) = "ready" =>
                   Status(t, 3) = "completed" /\ Status(t, 4) = "in-progress"

\* testing started with the implementation in progress, deployment pending
C28_Witness ==
    /\ call.op = "generateTimelineData"
    /\ Status(ret.value, 3) = "in-progress"
    /\ Status(ret.value, 4) = "in-progress"
    /\ Status(ret.value, 5) = "pending"

\* the features of the catalog that have the id as their key
KeyedBy(featureId) ==
    { i \in 1 .. Len(sampleFeatures) : sampleFeatures[i].id = featureId }

\* the features of the catalog whose name contains the id, letter case set
\* aside
NamedBy(featureId) ==
    { i \in 1 .. Len(sampleFeatures) :
         LET name == sampleFeatures[i].name
         IN  \E at \in 0 .. Len(name) - Len(featureId) :
                \A k \in 1 .. Len(featureId) :
                   toLowerCase(<<name[at + k]>>) = toLowerCase(<<featureId[k]>>) }

First(indices) == CHOOSE i \in indices : \A j \in indices : i <= j

\* the featureId of the last call, when it was a lookup
LookedUp ==
    IF call.op = "getFeatureInfo" THEN call.args[1] ELSE call.args[2]

IsLookup == call.op = "getFeatureInfo"

IsDetailsMessage ==
    /\ call.op = "onDidReceiveMessage"
    /\ call.args[1] = "getFeatureDetails"

\* C23 as stated: the lookup of an id that is not a key of the catalog
\* returns undefined, and the 'getFeatureDetails' message of such an id
\* posts nothing; a record is returned or posted only for an id that is a
\* key of the catalog.
C23_AbsentUnlessKey ==
    /\ IsLookup /\ KeyedBy(LookedUp) = {} => ret = Undefined
    /\ IsDetailsMessage /\ KeyedBy(LookedUp) = {} => posted = <<>>

\* the record the lookup of an id gives: the feature of that key, else the
\* first feature in catalog order whose name contains the id whatever the
\* letter case, else undefined
Expected(featureId) ==
    IF KeyedBy(featureId) # {} THEN sampleFeatures[First(KeyedBy(featureId))]
    ELSE IF NamedBy(featureId) # {}
    THEN sampleFeatures[First(NamedBy(featureId))]
    ELSE Undefined

\* C23 as amended: the lookup of an id that is neither a key of the catalog
\* nor contained, letter case set aside, in the name of a feature returns
\* undefined without failing, and its 'getFeatureDetails' message posts
\* nothing; a record is returned or posted only for an id that is a key
\* (the record of that key) or is contained in a name (the first such
\* feature in catalog order).
C23_AbsentUnlessKeyOrNamed ==
    /\ IsLookup => ret = Expected(LookedUp)
    /\ IsDetailsMessage =>
          posted = IF Expected(LookedUp) = Undefined THEN <<>>
                   ELSE << [command |-> "featureDetails",
                            data |-> [feature |-> Expected(LookedUp)]] >>

\* a 'getFeatureDetails' message with an id that is no key and in no name
\* has been handled and nothing was posted
C23_Witness ==
    /\ IsDetailsMessage
    /\ LookedUp # <<>>
    /\ KeyedBy(LookedUp) = {}
    /\ NamedBy(LookedUp) = {}
    /\ posted = <<>>

\* the step appended the two analyses of the provider's sample data
RecordsSampleData ==
    LET before == heap[metrics.analysisHistory]
        after == heap'[metrics'.analysisHistory]
    IN  /\ Len(after) = Len(before) + 2
        /\ SubSeq(after, 1, Len(before)) = before
        /\ after[Len(after) - 1].fileName = <<"app.js">>
        /\ after[Len(after)].fileName = <<"styles.css">>

\* C30: at most one panel exists at any time; show() called while a panel
\* is open creates no panel and leaves the store as it is; and the
\* provider's sample data is recorded only by a show() that creates a panel.
C30_OnePanelSampleOnCreation ==
    [][ /\ Cardinality(panels') <= 1
        /\ call'.op = "show" /\ panel # NoPanel =>
              UNCHANGED <<metrics, heap, panel, panels>>
        /\ RecordsSampleData =>
              call'.op = "show" /\ panel = NoPanel /\ panel' # NoPanel ]_vars

\* an 'updateData' message whose counters are all zero
IsZeroUpdate(message) ==
    /\ message.command = "updateData"
    /\ message.data.metrics.filesAnalyzed = 0
    /\ message.data.metrics.issuesFound = 0
    /\ message.data.metrics.fixesApplied = 0
    /\ message.data.metrics.modernizationProgress = 0

\* C29: the 'resetMetrics' message itself changes nothing in the store and
\* posts nothing, it only opens the prompt; when the prompt is answered
\* with anything but 'Yes, Reset All' (Cancel, or dismissed) the store is
\* unchanged and nothing is posted; when it is answered 'Yes, Reset All'
\* the store is reset and the message posted in that step, one if a panel
\* is open, is an updateData with all counters zero.
C29_ResetOnlyWhenConfirmed ==
    [][ /\ call'.op = "onDidReceiveMessage"
              /\ call'.args[1] = "resetMetrics" =>
              UNCHANGED <<metrics, heap>> /\ posted' = <<>>
        /\ call'.op = "resetMetrics.then" =>
              IF call'.args[1] = "Yes, Reset All"
              THEN /\ metrics'.filesAnalyzed = 0
                   /\ metrics'.issuesFound = 0
                   /\ metrics'.fixesApplied = 0
                   /\ metrics'.modernizationProgress = 0
                   /\ \A r \in Refs : heap'[r] = <<>>
                   /\ Len(posted') = IF panel = NoPanel THEN 0 ELSE 1
                   /\ \A i \in 1 .. Len(posted') : IsZeroUpdate(posted'[i])
              ELSE UNCHANGED <<metrics, heap>> /\ posted' = <<>> ]_vars

\* the prompt was answered 'Yes, Reset All' with the panel open, and the
\* panel got the zero counters
C29_Witness ==
    /\ call.op = "resetMetrics.then"
    /\ call.args[1] = "Yes, Reset All"
    /\ panel # NoPanel
    /\ Len(posted) = 1
    /\ IsZeroUpdate(posted[1])

\* what the panel is to be shown of a store: the counters and objects of
\* the record, the most used features, the recommendations and the timeline
ViewOf(m, h) ==
    [ metrics |->
          [ filesAnalyzed |-> m.filesAnalyzed,
            issuesFound |-> m.issuesFound,
            fixesApplied |-> m.fixesApplied,
            featureUsage |-> h[m.featureUsage],
            modernizationProgress |-> m.modernizationProgress,
            lastAnalysis |-> m.lastAnalysis,
            sessionStartTime |-> m.sessionStartTime,
            analysisHistory |-> h[m.analysisHistory],
            fixHistory |-> h[m.fixHistory] ],
      mostUsedFeatures |-> MostUsedFeatures(h[m.featureUsage]),
      recommendations |->
          Recommendations(m, MostUsedFeatures(h[m.featureUsage])),
      timeline |-> Timeline(m) ]

\* C26: whatever the order in which the turns of the analyzeProject loops,
\* analyzeFile, the messages of the panel and the answer to the reset
\* prompt run, no handler finds the store in the middle of a recording
\* operation (its counters agree with its histories and its progress is up
\* to date), and the metrics, mostUsedFeatures, recommendations and
\* timeline of every updateData message are those of the one store state
\* the handler that posted it left.
C26_UpdateDataOfOneStore ==
    /\ metrics.filesAnalyzed = Len(AnalysisHistory)
    /\ metrics.issuesFound = SumIssues(AnalysisHistory)
    /\ metrics.fixesApplied = Len(FixHistory)
    /\ metrics.modernizationProgress = ModernizationProgress(metrics)
    /\ \A i \in 1 .. Len(posted) :
          posted[i].command = "updateData" =>
              posted[i].data = ViewOf(metrics, heap)

\* while a run of analyzeProject is between two files and a prompt is open,
\* the panel got an updateData with the files analysed so far
C26_Witness ==
    /\ Len(runs) = 1
    /\ runs[1] \in 1 .. Len(projectFiles) - 1
    /\ prompts = 1
    /\ Len(posted) = 1
    /\ posted[1].command = "updateData"
    /\ posted[1].data.metrics.filesAnalyzed > 2

\* the last step posted an updateData whose counters are those of the store
ShowsStore ==
    /\ Len(posted) = 1
    /\ posted[1].command = "updateData"
    /\ posted[1].data.metrics.filesAnalyzed = metrics.filesAnalyzed
    /\ posted[1].data.metrics.issuesFound = metrics.issuesFound
    /\ posted[1].data.metrics.fixesApplied = metrics.fixesApplied
    /\ posted[1].data.metrics.modernizationProgress =
           metrics.modernizationProgress
    /\ posted[1].data.metrics.featureUsage = FeatureUsage

\* C25: when analyzeFile has recorded in the store while the panel is open,
\* then, the 'refresh' message of the webview's timer being handled again
\* and again, the panel is later posted an updateData whose counters are
\* those the store has at that moment, unless the panel is closed first.
C25_RecordingReachesPanel ==
    (call.op = "analyzeFile" /\ panel # NoPanel) ~>
        (panel = NoPanel \/ ShowsStore)

\* a 'refresh' handled after analyzeFile recorded a third file: the panel
\* has the counters of the store
C25_Witness ==
    /\ call.op = "onDidReceiveMessage"
    /\ call.args[1] = "refresh"
    /\ metrics.filesAnalyzed = 3
    /\ ShowsStore

====
